---- MODULE Spec2Model ----
(***************************************************************************)
(* Cache-consistency layer of the e-commerce backend: UserService and      *)
(* ProductService in front of the relational store, with the Redis cache   *)
(* helpers of app/cache.  One action per service method; every Redis call  *)
(* a method makes has an outcome drawn from Outcomes.                       *)
(***************************************************************************)
EXTENDS Integers, Sequences, FiniteSets, TLC

VARIABLES users, user_seq, products, product_seq, cache, now, last,
          inflight, orders, order_items, order_seq, order_item_seq,
          addresses, commits, reports, report_seq

vars == <<users, user_seq, products, product_seq, cache, now, last,
          inflight, orders, order_items, order_seq, order_item_seq,
          addresses, commits, reports, report_seq>>

\* The requests in flight, and the tables and the commit count of the order
\* service: left alone by the handlers that run to completion in one step.
order_vars == <<orders, order_items, order_seq, order_item_seq, addresses,
                commits, reports, report_seq>>

\* ------------------------------------------------------------------ bounds
MaxTicks == 1
MaxPatchFields == 1
MaxInflight == 2
MaxItems == 2
MaxOrders == 2
MaxCommits == 3
MaxReports == 3
RaceStock == 2
TickSeconds == 300

\* ------------------------------------------------------- program constants
USER_TTL == 3600
PRODUCT_TTL == 600

\* ------------------------------------------------------------ value domains
\* Python's Optional[x]: <<>> is None, <<v>> is the value v.
None == <<>>
Some(v) == <<v>>

UserIds == {1, 2}
ProductIds == {1, 2}
Usernames == {"alice", "bob"}
Emails == {"a@x.io", "b@x.io"}
Descriptions == {}
Names == {"pen"}
Prices == {10, 12}
BadPrices == {0}
Stocks == {5}
BadStocks == {-1}

\* A redis call succeeds or raises one of the two redis-py errors the code
\* distinguishes: redis.ConnectionError and redis.TimeoutError (both are
\* subclasses of redis.RedisError, neither of the other).
Outcomes == {"ok", "ConnectionError", "TimeoutError"}

\* datetime objects and their ISO-8601 strings are different Python types.
datetime(v) == [type |-> "datetime", v |-> v]
isoformat(d) == [type |-> "str", v |-> d.v]
fromisoformat(s) == [type |-> "datetime", v |-> s.v]
isinstance_str(x) == x.type = "str"

\* A str is [type |-> "str", v |-> n]: the ISO-8601 text of the instant n, or
\* for a negative n a text that is no ISO-8601 timestamp, on which
\* datetime.fromisoformat raises ValueError.
iso8601(s) == s.v >= 0
\* datetime.now() of the column defaults, abstracted to one instant.
datetime_now == datetime(0)

UserKey(user_id) == <<"user", user_id>>
ProductKey(product_id) == <<"product", product_id>>

\* ------------------------------------------------------------ redis server
NoExpiry == -1

Remove(c, key) == [k \in DOMAIN c \ {key} |-> c[k]]

\* SETEX key ttl value: value and expiry are stored by one command.
redis_setex(c, key, ttl, value, t) ==
    [k \in DOMAIN c \cup {key} |->
        IF k = key THEN [value |-> value, expire_at |-> t + ttl] ELSE c[k]]

\* DEL key
redis_delete(c, key) == Remove(c, key)

\* TTL key: -2 when the key does not exist, -1 when it has no expiry.
redis_ttl(c, key, t) ==
    IF key \notin DOMAIN c THEN -2
    ELSE IF c[key].expire_at = NoExpiry THEN -1
    ELSE c[key].expire_at - t

\* json.dumps raises TypeError on a datetime object; the text it produces is
\* the dict behind a "json" tag.
json_serializable(d) ==
    /\ d.created_at.type = "str"
    /\ (d.updated_at # None => d.updated_at[1].type = "str")

json_dumps(d) == [json |-> TRUE, utf8 |-> TRUE, body |-> d]

\* The client decodes every reply as UTF-8 (decode_responses), strictly.
utf8_valid(s) == s.utf8

\* json.loads raises JSONDecodeError on text that is not JSON.
json_valid(s) == s.json

json_loads(s) == s.body


\* ---------------------------------------------------- app/cache/user_cache
\* Every helper returns [exc, ret, cache, calls]: the exception that leaves
\* the helper ("" when none), its return value, the store afterwards and the
\* redis commands it issued with their outcomes.

\* A lookup that lets the ConnectionError of GET leave the helper.
get_user_from_cache_raises(c, user_id, o_get, o_del) ==
    LET key == UserKey(user_id)
        get == <<<<"GET", o_get>>>>
    IN  IF o_get # "ok"
        THEN [exc |-> o_get, ret |-> None, cache |-> c, calls |-> get]
        ELSE IF key \notin DOMAIN c
        THEN [exc |-> "", ret |-> None, cache |-> c, calls |-> get]
        ELSE [exc |-> "", ret |-> Some(json_loads(c[key].value)),
              cache |-> c, calls |-> get]

\* A lookup that pushes the expiry of the entry it reads back by the TTL.
get_user_from_cache_renews_ttl(c, user_id, o_get, o_del) ==
    LET key == UserKey(user_id)
        get == <<<<"GET", o_get>>>>
    IN  IF o_get = "ConnectionError"
        THEN [exc |-> "", ret |-> None, cache |-> c, calls |-> get]
        ELSE IF o_get = "TimeoutError"
        THEN [exc |-> "TimeoutError", ret |-> None, cache |-> c, calls |-> get]
        ELSE IF key \notin DOMAIN c
        THEN [exc |-> "", ret |-> None, cache |-> c, calls |-> get]
        ELSE [exc |-> "", ret |-> Some(json_loads(c[key].value)),
              cache |-> [c EXCEPT ![key].expire_at = @ + USER_TTL],
              calls |-> get]

get_user_from_cache(c, user_id, o_get, o_del) ==
    LET key == UserKey(user_id)
        get == <<<<"GET", o_get>>>>
    IN  IF o_get = "ConnectionError"
        THEN [exc |-> "", ret |-> None, cache |-> c, calls |-> get]
        ELSE IF o_get = "TimeoutError"
        THEN [exc |-> "TimeoutError", ret |-> None, cache |-> c, calls |-> get]
        ELSE IF key \notin DOMAIN c
        THEN [exc |-> "", ret |-> None, cache |-> c, calls |-> get]
        ELSE IF ~utf8_valid(c[key].value)
        THEN \* raised by redis_client.get, caught by neither except clause
             [exc |-> "UnicodeDecodeError", ret |-> None, cache |-> c,
              calls |-> get]
        ELSE IF json_valid(c[key].value)
        THEN [exc |-> "", ret |-> Some(json_loads(c[key].value)),
              cache |-> c, calls |-> get]
        ELSE \* json.JSONDecodeError: the damaged key is deleted
             LET both == Append(get, <<"DEL", o_del>>)
             IN  IF o_del = "ok"
                 THEN [exc |-> "", ret |-> None,
                       cache |-> redis_delete(c, key), calls |-> both]
                 ELSE IF o_del = "ConnectionError"
                 THEN [exc |-> "", ret |-> None, cache |-> c, calls |-> both]
                 ELSE [exc |-> "TimeoutError", ret |-> None, cache |-> c,
                       calls |-> both]

\* A write with SET instead of SETEX: the entry never expires.
set_user_to_cache_no_expiry(c, user_id, user_data, ttl, t, o_set) ==
    LET key == UserKey(user_id)
        call == <<<<"SET", o_set>>>>
    IN  IF o_set = "ok"
        THEN [exc |-> "", ret |-> None,
              cache |-> [k \in DOMAIN c \cup {key} |->
                            IF k = key
                            THEN [value |-> json_dumps(user_data),
                                  expire_at |-> NoExpiry]
                            ELSE c[k]],
              calls |-> call]
        ELSE [exc |-> "", ret |-> None, cache |-> c, calls |-> call]

\* A write that makes a second attempt when the first one failed.
set_user_to_cache_retries(c, user_id, user_data, ttl, t, o_set) ==
    LET key == UserKey(user_id)
        stored == redis_setex(c, key, ttl, json_dumps(user_data), t)
    IN  IF ~json_serializable(user_data)
        THEN [exc |-> "", ret |-> None, cache |-> c, calls |-> <<>>]
        ELSE IF o_set = "ok"
        THEN [exc |-> "", ret |-> None, cache |-> stored,
              calls |-> <<<<"SETEX", "ok">>>>]
        ELSE [exc |-> "", ret |-> None, cache |-> stored,
              calls |-> <<<<"SETEX", o_set>>, <<"SETEX", "ok">>>>]

set_user_to_cache(c, user_id, user_data, ttl, t, o_set) ==
    LET key == UserKey(user_id)
    IN  IF ~json_serializable(user_data)
        THEN \* TypeError of json.dumps, logged
             [exc |-> "", ret |-> None, cache |-> c, calls |-> <<>>]
        ELSE LET call == <<<<"SETEX", o_set>>>>
             IN  IF o_set = "ok"
                 THEN [exc |-> "", ret |-> None,
                       cache |-> redis_setex(c, key, ttl,
                                             json_dumps(user_data), t),
                       calls |-> call]
                 ELSE IF o_set = "ConnectionError"
                 THEN [exc |-> "", ret |-> None, cache |-> c, calls |-> call]
                 ELSE [exc |-> "TimeoutError", ret |-> None, cache |-> c,
                       calls |-> call]

delete_user_from_cache(c, user_id, o_del) ==
    LET key == UserKey(user_id)
        call == <<<<"DEL", o_del>>>>
    IN  IF o_del = "ok"
        THEN [exc |-> "", ret |-> None, cache |-> redis_delete(c, key),
              calls |-> call]
        ELSE IF o_del = "ConnectionError"
        THEN [exc |-> "", ret |-> None, cache |-> c, calls |-> call]
        ELSE [exc |-> "TimeoutError", ret |-> None, cache |-> c,
              calls |-> call]

\* ------------------------------------------- app/repositories/user_repository
\* The users table is a function from the ids of the stored rows to the rows.

UserRepository_get_by_id(tbl, user_id) ==
    IF user_id \in DOMAIN tbl THEN Some(tbl[user_id]) ELSE None

\* model_dump(exclude_unset=True) filtered on "v is not None", then setattr.
apply_user_patch(row, user_data) ==
    [row EXCEPT
        !.username = IF user_data.username # None
                     THEN user_data.username[1] ELSE @,
        !.email = IF user_data.email # None THEN user_data.email[1] ELSE @,
        !.description = IF user_data.description # None
                        THEN user_data.description ELSE @]

UserRepository_update(tbl, user_id, user_data) ==
    IF user_id \notin DOMAIN tbl
    THEN [exc |-> "ValueError", ret |-> None, tbl |-> tbl]
    ELSE LET patched == apply_user_patch(tbl[user_id], user_data)
             row == IF patched = tbl[user_id] THEN patched
                    ELSE [patched EXCEPT !.updated_at = Some(datetime_now)]
         IN  [exc |-> "", ret |-> Some(row),
              tbl |-> [tbl EXCEPT ![user_id] = row]]

\* A users table without the two unique indexes.
users_unique_unchecked(tbl) == TRUE

\* unique=True on username and on email: the table accepts a flush only when
\* no two rows share a username and no two share an email; otherwise the
\* INSERT or UPDATE raises IntegrityError.
users_unique(tbl) ==
    \A a, b \in DOMAIN tbl :
        a # b => /\ tbl[a].username # tbl[b].username
                 /\ tbl[a].email # tbl[b].email

UserRepository_delete(tbl, user_id) ==
    IF user_id \notin DOMAIN tbl
    THEN [exc |-> "ValueError", tbl |-> tbl]
    ELSE [exc |-> "", tbl |-> [k \in DOMAIN tbl \ {user_id} |-> tbl[k]]]

UserRepository_create(tbl, seq, user_data) ==
    LET row == [id |-> seq + 1,
                username |-> user_data.username,
                email |-> user_data.email,
                description |-> user_data.description,
                created_at |-> datetime_now,
                updated_at |-> Some(datetime_now)]
    IN  [ret |-> Some(row),
         tbl |-> [k \in DOMAIN tbl \cup {seq + 1} |->
                     IF k = seq + 1 THEN row ELSE tbl[k]]]


\* --------------------------------------------------- app/services/user_service
\* UserResponse.model_validate(user).model_dump(): the response projection of
\* the row; validation fails (a ValueError) unless id > 0.
UserResponse_valid(user) == user.id > 0

UserResponse_model_dump(user) ==
    [id |-> user.id, username |-> user.username, email |-> user.email,
     description |-> user.description, created_at |-> user.created_at,
     updated_at |-> user.updated_at]

\* The two "if user_dict.get(...)" conversions before the cache write.
user_dict_isoformat(user_dict) ==
    [user_dict EXCEPT
        !.created_at = isoformat(@),
        !.updated_at = IF @ # None THEN Some(isoformat(@[1])) ELSE @]

\* A JSON value that is not an object is the record [py |-> <its type>].
is_dict(x) == "py" \notin DOMAIN x

\* dict.get(k): None for a missing key.
dict_get(d, k) == IF k \in DOMAIN d THEN d[k] ELSE None

\* The exception of the timestamp conversions of the hit path ("" when
\* none): cached_data["created_at"] on a value that is no dict (TypeError) or
\* lacks the key (KeyError), fromisoformat on a text that is no timestamp.
cached_timestamps_raise(cached_data) ==
    IF ~is_dict(cached_data) THEN "TypeError"
    ELSE IF "created_at" \notin DOMAIN cached_data THEN "KeyError"
    ELSE IF /\ isinstance_str(cached_data.created_at)
            /\ ~iso8601(cached_data.created_at)
    THEN "ValueError"
    ELSE IF /\ dict_get(cached_data, "updated_at") # None
            /\ isinstance_str(cached_data.updated_at[1])
            /\ ~iso8601(cached_data.updated_at[1])
    THEN "ValueError"
    ELSE ""

\* The exception that leaves the rebuild of a User from the cached value.
user_from_cached_data_raises(cached_data) ==
    IF cached_timestamps_raise(cached_data) # ""
    THEN cached_timestamps_raise(cached_data)
    ELSE IF ~({"id", "username", "email"} \subseteq DOMAIN cached_data)
    THEN "KeyError"
    ELSE ""

\* A rebuild that leaves the description out and keeps updated_at as cached.
user_from_cached_data_drops_fields(cached_data) ==
    [id |-> cached_data.id,
     username |-> cached_data.username,
     email |-> cached_data.email,
     description |-> None,
     created_at |-> IF isinstance_str(cached_data.created_at)
                    THEN fromisoformat(cached_data.created_at)
                    ELSE cached_data.created_at,
     updated_at |-> dict_get(cached_data, "updated_at")]

\* User(...) rebuilt from the cached dict on a hit.
user_from_cached_data(cached_data) ==
    [id |-> cached_data.id,
     username |-> cached_data.username,
     email |-> cached_data.email,
     description |-> dict_get(cached_data, "description"),
     created_at |-> IF isinstance_str(cached_data.created_at)
                    THEN fromisoformat(cached_data.created_at)
                    ELSE cached_data.created_at,
     updated_at |-> IF dict_get(cached_data, "updated_at") # None
                       /\ isinstance_str(cached_data.updated_at[1])
                    THEN Some(fromisoformat(cached_data.updated_at[1]))
                    ELSE dict_get(cached_data, "updated_at")]

\* A read that asks the repository even when the cache answered.
UserService_get_by_id_always_reads_db(tbl, c, t, redis_client, user_id, o) ==
    LET g == IF redis_client
             THEN get_user_from_cache(c, user_id, o.get, o.del)
             ELSE [exc |-> "", ret |-> None, cache |-> c, calls |-> <<>>]
        user == UserRepository_get_by_id(tbl, user_id)
    IN  IF g.exc # ""
        THEN [exc |-> g.exc, ret |-> None, cache |-> g.cache, repo |-> 0,
              calls |-> g.calls]
        ELSE IF g.ret # None
        THEN [exc |-> "", ret |-> user, cache |-> g.cache, repo |-> 1,
              calls |-> g.calls]
        ELSE IF user # None /\ redis_client /\ UserResponse_valid(user[1])
        THEN LET w == set_user_to_cache(
                          g.cache, user_id,
                          user_dict_isoformat(UserResponse_model_dump(user[1])),
                          USER_TTL, t, o.set)
             IN  [exc |-> "", ret |-> user, cache |-> w.cache, repo |-> 1,
                  calls |-> g.calls \o w.calls]
        ELSE [exc |-> "", ret |-> user, cache |-> g.cache, repo |-> 1,
              calls |-> g.calls]

\* A read that caches the absence of the row (negative caching).
UserService_get_by_id_caches_not_found(tbl, c, t, redis_client, user_id, o) ==
    LET g == IF redis_client
             THEN get_user_from_cache(c, user_id, o.get, o.del)
             ELSE [exc |-> "", ret |-> None, cache |-> c, calls |-> <<>>]
        user == UserRepository_get_by_id(tbl, user_id)
    IN  IF g.exc # ""
        THEN [exc |-> g.exc, ret |-> None, cache |-> g.cache, repo |-> 0,
              calls |-> g.calls]
        ELSE IF g.ret # None /\ user_from_cached_data_raises(g.ret[1]) # ""
        THEN [exc |-> "", ret |-> None, cache |-> g.cache, repo |-> 0,
              calls |-> g.calls]
        ELSE IF g.ret # None
        THEN [exc |-> "", ret |-> Some(user_from_cached_data(g.ret[1])),
              cache |-> g.cache, repo |-> 0, calls |-> g.calls]
        ELSE IF user # None /\ redis_client /\ UserResponse_valid(user[1])
        THEN LET w == set_user_to_cache(
                          g.cache, user_id,
                          user_dict_isoformat(UserResponse_model_dump(user[1])),
                          USER_TTL, t, o.set)
             IN  [exc |-> "", ret |-> user, cache |-> w.cache, repo |-> 1,
                  calls |-> g.calls \o w.calls]
        ELSE IF user = None /\ redis_client /\ o.set = "ok"
        THEN [exc |-> "", ret |-> user,
              cache |-> redis_setex(g.cache, UserKey(user_id), USER_TTL,
                                    json_dumps([py |-> "NoneType"]), t),
              repo |-> 1, calls |-> Append(g.calls, <<"SETEX", "ok">>)]
        ELSE [exc |-> "", ret |-> user, cache |-> g.cache, repo |-> 1,
              calls |-> g.calls]

\* A read whose cache population is not wrapped in the try: an error of the
\* write leaves the method.
UserService_get_by_id_set_errors_escape(tbl, c, t, redis_client, user_id, o) ==
    LET g == IF redis_client
             THEN get_user_from_cache(c, user_id, o.get, o.del)
             ELSE [exc |-> "", ret |-> None, cache |-> c, calls |-> <<>>]
        user == UserRepository_get_by_id(tbl, user_id)
    IN  IF g.exc # ""
        THEN [exc |-> g.exc, ret |-> None, cache |-> g.cache, repo |-> 0,
              calls |-> g.calls]
        ELSE IF g.ret # None
        THEN [exc |-> "", ret |-> Some(user_from_cached_data(g.ret[1])),
              cache |-> g.cache, repo |-> 0, calls |-> g.calls]
        ELSE IF user # None /\ redis_client /\ UserResponse_valid(user[1])
        THEN LET w == set_user_to_cache(
                          g.cache, user_id,
                          user_dict_isoformat(UserResponse_model_dump(user[1])),
                          USER_TTL, t, o.set)
             IN  [exc |-> w.exc, ret |-> IF w.exc = "" THEN user ELSE None,
                  cache |-> w.cache, repo |-> 1,
                  calls |-> g.calls \o w.calls]
        ELSE [exc |-> "", ret |-> user, cache |-> g.cache, repo |-> 1,
              calls |-> g.calls]

\* o = [get, del, set]: the outcomes of the redis calls the method may make.
\* Returns [exc, ret, cache, repo, calls]; repo counts the repository calls.
UserService_get_by_id(tbl, c, t, redis_client, user_id, o) ==
    LET g == IF redis_client
             THEN get_user_from_cache(c, user_id, o.get, o.del)
             ELSE [exc |-> "", ret |-> None, cache |-> c, calls |-> <<>>]
    IN  IF g.exc # ""
        THEN [exc |-> g.exc, ret |-> None, cache |-> g.cache, repo |-> 0,
              calls |-> g.calls]
        ELSE IF g.ret # None /\ user_from_cached_data_raises(g.ret[1]) # ""
        THEN \* the hit path is outside every try
             [exc |-> user_from_cached_data_raises(g.ret[1]), ret |-> None,
              cache |-> g.cache, repo |-> 0, calls |-> g.calls]
        ELSE IF g.ret # None
        THEN [exc |-> "", ret |-> Some(user_from_cached_data(g.ret[1])),
              cache |-> g.cache, repo |-> 0, calls |-> g.calls]
        ELSE LET user == UserRepository_get_by_id(tbl, user_id)
             IN  IF user # None /\ redis_client
                    /\ UserResponse_valid(user[1])
                 THEN LET user_dict == user_dict_isoformat(
                                          UserResponse_model_dump(user[1]))
                          w == set_user_to_cache(g.cache, user_id, user_dict,
                                                 USER_TTL, t, o.set)
                      IN  \* except (ValueError, TypeError, redis.RedisError)
                          [exc |-> "", ret |-> user, cache |-> w.cache,
                           repo |-> 1, calls |-> g.calls \o w.calls]
                 ELSE [exc |-> "", ret |-> user, cache |-> g.cache,
                       repo |-> 1, calls |-> g.calls]

UserService_check_email_exists(tbl, email) ==
    \E k \in DOMAIN tbl : tbl[k].email = email

UserService_check_username_exists(tbl, username) ==
    \E k \in DOMAIN tbl : tbl[k].username = username

\* A create that checks the email only.
UserService_create_unchecked_username(tbl, seq, user_data) ==
    IF UserService_check_email_exists(tbl, user_data.email)
    THEN [exc |-> "ValueError", ret |-> None, tbl |-> tbl, seq |-> seq,
          repo |-> 0]
    ELSE LET r == UserRepository_create(tbl, seq, user_data)
         IN  [exc |-> "", ret |-> r.ret, tbl |-> r.tbl, seq |-> seq + 1,
              repo |-> 1]

\* Returns [exc, ret, tbl, seq, repo].
UserService_create(tbl, seq, user_data) ==
    IF UserService_check_email_exists(tbl, user_data.email)
       \/ UserService_check_username_exists(tbl, user_data.username)
    THEN [exc |-> "ValueError", ret |-> None, tbl |-> tbl, seq |-> seq,
          repo |-> 0]
    ELSE LET r == UserRepository_create(tbl, seq, user_data)
         IN  [exc |-> "", ret |-> r.ret, tbl |-> r.tbl, seq |-> seq + 1,
              repo |-> 1]

\* An update that writes the new row to the store instead of deleting the key.
UserService_update_refreshes(tbl, c, redis_client, user_id, user_data, o_del) ==
    LET existing_user == UserRepository_get_by_id(tbl, user_id)
        failed(n) == [exc |-> "ValueError", ret |-> None, tbl |-> tbl,
                      cache |-> c, repo |-> n, calls |-> <<>>]
    IN  IF existing_user = None THEN failed(1)
        ELSE IF /\ user_data.email # None
                /\ user_data.email[1] # existing_user[1].email
                /\ UserService_check_email_exists(tbl, user_data.email[1])
        THEN failed(1)
        ELSE IF /\ user_data.username # None
                /\ user_data.username[1] # existing_user[1].username
                /\ UserService_check_username_exists(tbl,
                                                     user_data.username[1])
        THEN failed(1)
        ELSE LET r == UserRepository_update(tbl, user_id, user_data)
                 w == set_user_to_cache(
                          c, user_id,
                          user_dict_isoformat(
                              UserResponse_model_dump(r.ret[1])),
                          USER_TTL, 0, o_del)
             IN  [exc |-> "", ret |-> r.ret, tbl |-> r.tbl,
                  cache |-> w.cache, repo |-> 2, calls |-> w.calls]

\* An update that invalidates the key before it validates the request.
UserService_update_invalidates_first(tbl, c, redis_client, user_id, user_data, o_del) ==
    LET d == delete_user_from_cache(c, user_id, o_del)
        existing_user == UserRepository_get_by_id(tbl, user_id)
        failed(n) == [exc |-> "ValueError", ret |-> None, tbl |-> tbl,
                      cache |-> d.cache, repo |-> n, calls |-> d.calls]
    IN  IF existing_user = None THEN failed(1)
        ELSE IF /\ user_data.email # None
                /\ user_data.email[1] # existing_user[1].email
                /\ UserService_check_email_exists(tbl, user_data.email[1])
        THEN failed(1)
        ELSE IF /\ user_data.username # None
                /\ user_data.username[1] # existing_user[1].username
                /\ UserService_check_username_exists(tbl,
                                                     user_data.username[1])
        THEN failed(1)
        ELSE LET r == UserRepository_update(tbl, user_id, user_data)
             IN  [exc |-> "", ret |-> r.ret, tbl |-> r.tbl,
                  cache |-> d.cache, repo |-> 2, calls |-> d.calls]

\* Returns [exc, ret, tbl, cache, repo, calls].
UserService_update(tbl, c, redis_client, user_id, user_data, o_del) ==
    LET existing_user == UserRepository_get_by_id(tbl, user_id)
        failed(n) == [exc |-> "ValueError", ret |-> None, tbl |-> tbl,
                      cache |-> c, repo |-> n, calls |-> <<>>]
    IN  IF existing_user = None THEN failed(1)
        ELSE IF /\ user_data.email # None
                /\ user_data.email[1] # existing_user[1].email
                /\ UserService_check_email_exists(tbl, user_data.email[1])
        THEN failed(1)
        ELSE IF /\ user_data.username # None
                /\ user_data.username[1] # existing_user[1].username
                /\ UserService_check_username_exists(tbl,
                                                     user_data.username[1])
        THEN failed(1)
        ELSE LET r == UserRepository_update(tbl, user_id, user_data)
                 d == IF redis_client
                      THEN delete_user_from_cache(c, user_id, o_del)
                      ELSE [exc |-> "", ret |-> None, cache |-> c,
                            calls |-> <<>>]
             IN  \* except redis.RedisError: logged
                 [exc |-> "", ret |-> r.ret, tbl |-> r.tbl,
                  cache |-> d.cache, repo |-> 2, calls |-> d.calls]

\* A delete that leaves the cache alone.
UserService_delete_keeps_cache(tbl, c, redis_client, user_id, o_del) ==
    LET r == UserRepository_delete(tbl, user_id)
    IN  IF r.exc # ""
        THEN [exc |-> r.exc, ret |-> None, tbl |-> tbl, cache |-> c,
              repo |-> 1, calls |-> <<>>]
        ELSE [exc |-> "", ret |-> None, tbl |-> r.tbl, cache |-> c,
              repo |-> 1, calls |-> <<>>]

\* Returns [exc, ret, tbl, cache, repo, calls].
UserService_delete(tbl, c, redis_client, user_id, o_del) ==
    LET r == UserRepository_delete(tbl, user_id)
    IN  IF r.exc # ""
        THEN [exc |-> r.exc, ret |-> None, tbl |-> tbl, cache |-> c,
              repo |-> 1, calls |-> <<>>]
        ELSE LET d == IF redis_client
                      THEN delete_user_from_cache(c, user_id, o_del)
                      ELSE [exc |-> "", ret |-> None, cache |-> c,
                            calls |-> <<>>]
             IN  [exc |-> "", ret |-> None, tbl |-> r.tbl, cache |-> d.cache,
                  repo |-> 1, calls |-> d.calls]


\* ------------------------------------------------- app/cache/product_cache

get_product_from_cache(c, product_id, o_get, o_del) ==
    LET key == ProductKey(product_id)
        get == <<<<"GET", o_get>>>>
    IN  IF o_get = "ConnectionError"
        THEN [exc |-> "", ret |-> None, cache |-> c, calls |-> get]
        ELSE IF o_get = "TimeoutError"
        THEN [exc |-> "TimeoutError", ret |-> None, cache |-> c, calls |-> get]
        ELSE IF key \notin DOMAIN c
        THEN [exc |-> "", ret |-> None, cache |-> c, calls |-> get]
        ELSE IF ~utf8_valid(c[key].value)
        THEN \* raised by redis_client.get, caught by neither except clause
             [exc |-> "UnicodeDecodeError", ret |-> None, cache |-> c,
              calls |-> get]
        ELSE IF json_valid(c[key].value)
        THEN [exc |-> "", ret |-> Some(json_loads(c[key].value)),
              cache |-> c, calls |-> get]
        ELSE \* json.JSONDecodeError: the damaged key is deleted
             LET both == Append(get, <<"DEL", o_del>>)
             IN  IF o_del = "ok"
                 THEN [exc |-> "", ret |-> None,
                       cache |-> redis_delete(c, key), calls |-> both]
                 ELSE IF o_del = "ConnectionError"
                 THEN [exc |-> "", ret |-> None, cache |-> c, calls |-> both]
                 ELSE [exc |-> "TimeoutError", ret |-> None, cache |-> c,
                       calls |-> both]

set_product_to_cache(c, product_id, product_data, ttl, t, o_set) ==
    LET key == ProductKey(product_id)
    IN  IF ~json_serializable(product_data)
        THEN [exc |-> "", ret |-> None, cache |-> c, calls |-> <<>>]
        ELSE LET call == <<<<"SETEX", o_set>>>>
             IN  IF o_set = "ok"
                 THEN [exc |-> "", ret |-> None,
                       cache |-> redis_setex(c, key, ttl,
                                             json_dumps(product_data), t),
                       calls |-> call]
                 ELSE IF o_set = "ConnectionError"
                 THEN [exc |-> "", ret |-> None, cache |-> c, calls |-> call]
                 ELSE [exc |-> "TimeoutError", ret |-> None, cache |-> c,
                       calls |-> call]

update_product_in_cache(c, product_id, product_data, ttl, t, o_set) ==
    LET key == ProductKey(product_id)
    IN  IF ~json_serializable(product_data)
        THEN [exc |-> "", ret |-> None, cache |-> c, calls |-> <<>>]
        ELSE LET call == <<<<"SETEX", o_set>>>>
             IN  IF o_set = "ok"
                 THEN \* setex creates the key when it does not exist
                      [exc |-> "", ret |-> None,
                       cache |-> redis_setex(c, key, ttl,
                                             json_dumps(product_data), t),
                       calls |-> call]
                 ELSE IF o_set = "ConnectionError"
                 THEN [exc |-> "", ret |-> None, cache |-> c, calls |-> call]
                 ELSE [exc |-> "TimeoutError", ret |-> None, cache |-> c,
                       calls |-> call]

delete_product_from_cache(c, product_id, o_del) ==
    LET key == ProductKey(product_id)
        call == <<<<"DEL", o_del>>>>
    IN  IF o_del = "ok"
        THEN [exc |-> "", ret |-> None, cache |-> redis_delete(c, key),
              calls |-> call]
        ELSE IF o_del = "ConnectionError"
        THEN [exc |-> "", ret |-> None, cache |-> c, calls |-> call]
        ELSE [exc |-> "TimeoutError", ret |-> None, cache |-> c,
              calls |-> call]

\* ---------------------------------------- app/repositories/product_repository

ProductRepository_get_by_id(tbl, product_id) ==
    IF product_id \in DOMAIN tbl THEN Some(tbl[product_id]) ELSE None

\* A patch that also writes the description when the patch leaves it unset.
apply_product_patch_writes_unset(row, product_data) ==
    [row EXCEPT
        !.name = IF product_data.name # None
                 THEN product_data.name[1] ELSE @,
        !.description = product_data.description,
        !.price = IF product_data.price # None
                  THEN product_data.price[1] ELSE @,
        !.stock_quantity = IF product_data.stock_quantity # None
                           THEN product_data.stock_quantity[1] ELSE @]

apply_product_patch(row, product_data) ==
    [row EXCEPT
        !.name = IF product_data.name # None
                 THEN product_data.name[1] ELSE @,
        !.description = IF product_data.description # None
                        THEN product_data.description ELSE @,
        !.price = IF product_data.price # None
                  THEN product_data.price[1] ELSE @,
        !.stock_quantity = IF product_data.stock_quantity # None
                           THEN product_data.stock_quantity[1] ELSE @]

ProductRepository_update(tbl, product_id, product_data) ==
    IF product_id \notin DOMAIN tbl
    THEN [exc |-> "ValueError", ret |-> None, tbl |-> tbl]
    ELSE LET patched == apply_product_patch(tbl[product_id], product_data)
             row == IF patched = tbl[product_id] THEN patched
                    ELSE [patched EXCEPT !.updated_at = Some(datetime_now)]
         IN  [exc |-> "", ret |-> Some(row),
              tbl |-> [tbl EXCEPT ![product_id] = row]]

ProductRepository_delete(tbl, product_id) ==
    IF product_id \notin DOMAIN tbl
    THEN [exc |-> "ValueError", tbl |-> tbl]
    ELSE [exc |-> "", tbl |-> [k \in DOMAIN tbl \ {product_id} |-> tbl[k]]]

ProductRepository_create(tbl, seq, product_data) ==
    LET row == [id |-> seq + 1,
                name |-> product_data.name,
                description |-> product_data.description,
                price |-> product_data.price,
                stock_quantity |-> product_data.stock_quantity,
                created_at |-> datetime_now,
                updated_at |-> Some(datetime_now)]
    IN  [ret |-> Some(row),
         tbl |-> [k \in DOMAIN tbl \cup {seq + 1} |->
                     IF k = seq + 1 THEN row ELSE tbl[k]]]

\* ------------------------------------------------ app/services/product_service

ProductResponse_valid(product) == product.id > 0

ProductResponse_model_dump(product) ==
    [id |-> product.id, name |-> product.name,
     description |-> product.description, price |-> product.price,
     stock_quantity |-> product.stock_quantity,
     created_at |-> product.created_at, updated_at |-> product.updated_at]

product_dict_isoformat(product_dict) ==
    [product_dict EXCEPT
        !.created_at = isoformat(@),
        !.updated_at = IF @ # None THEN Some(isoformat(@[1])) ELSE @]

\* The exception that leaves the rebuild of a Product from the cached value.
product_from_cached_data_raises(cached_data) ==
    IF cached_timestamps_raise(cached_data) # ""
    THEN cached_timestamps_raise(cached_data)
    ELSE IF ~({"id", "name", "price", "stock_quantity"}
                 \subseteq DOMAIN cached_data)
    THEN "KeyError"
    ELSE ""

product_from_cached_data(cached_data) ==
    [id |-> cached_data.id,
     name |-> cached_data.name,
     description |-> dict_get(cached_data, "description"),
     price |-> cached_data.price,
     stock_quantity |-> cached_data.stock_quantity,
     created_at |-> IF isinstance_str(cached_data.created_at)
                    THEN fromisoformat(cached_data.created_at)
                    ELSE cached_data.created_at,
     updated_at |-> IF dict_get(cached_data, "updated_at") # None
                       /\ isinstance_str(cached_data.updated_at[1])
                    THEN Some(fromisoformat(cached_data.updated_at[1]))
                    ELSE dict_get(cached_data, "updated_at")]

ProductService_get_by_id(tbl, c, t, redis_client, product_id, o) ==
    LET g == IF redis_client
             THEN get_product_from_cache(c, product_id, o.get, o.del)
             ELSE [exc |-> "", ret |-> None, cache |-> c, calls |-> <<>>]
    IN  IF g.exc # ""
        THEN [exc |-> g.exc, ret |-> None, cache |-> g.cache, repo |-> 0,
              calls |-> g.calls]
        ELSE IF /\ g.ret # None
                /\ product_from_cached_data_raises(g.ret[1]) # ""
        THEN [exc |-> product_from_cached_data_raises(g.ret[1]),
              ret |-> None, cache |-> g.cache, repo |-> 0,
              calls |-> g.calls]
        ELSE IF g.ret # None
        THEN [exc |-> "", ret |-> Some(product_from_cached_data(g.ret[1])),
              cache |-> g.cache, repo |-> 0, calls |-> g.calls]
        ELSE LET product == ProductRepository_get_by_id(tbl, product_id)
             IN  IF product # None /\ redis_client
                    /\ ProductResponse_valid(product[1])
                 THEN LET product_dict ==
                              product_dict_isoformat(
                                  ProductResponse_model_dump(product[1]))
                          w == set_product_to_cache(g.cache, product_id,
                                                    product_dict,
                                                    PRODUCT_TTL, t, o.set)
                      IN  [exc |-> "", ret |-> product, cache |-> w.cache,
                           repo |-> 1, calls |-> g.calls \o w.calls]
                 ELSE [exc |-> "", ret |-> product, cache |-> g.cache,
                       repo |-> 1, calls |-> g.calls]

\* A create that checks the price only.
ProductService_create_unchecked_stock(tbl, seq, product_data) ==
    IF product_data.price <= 0
    THEN [exc |-> "ValueError", ret |-> None, tbl |-> tbl, seq |-> seq,
          repo |-> 0]
    ELSE LET r == ProductRepository_create(tbl, seq, product_data)
         IN  [exc |-> "", ret |-> r.ret, tbl |-> r.tbl, seq |-> seq + 1,
              repo |-> 1]

ProductService_create(tbl, seq, product_data) ==
    IF product_data.price <= 0 \/ product_data.stock_quantity < 0
    THEN [exc |-> "ValueError", ret |-> None, tbl |-> tbl, seq |-> seq,
          repo |-> 0]
    ELSE LET r == ProductRepository_create(tbl, seq, product_data)
         IN  [exc |-> "", ret |-> r.ret, tbl |-> r.tbl, seq |-> seq + 1,
              repo |-> 1]

\* An update that refreshes the cache with the record it read before the write.
ProductService_update_caches_old(tbl, c, t, redis_client, product_id, product_data, o_set) ==
    LET existing_product == ProductRepository_get_by_id(tbl, product_id)
        failed(n) == [exc |-> "ValueError", ret |-> None, tbl |-> tbl,
                      cache |-> c, repo |-> n, calls |-> <<>>]
    IN  IF existing_product = None THEN failed(1)
        ELSE IF product_data.price # None /\ product_data.price[1] <= 0
        THEN failed(1)
        ELSE IF /\ product_data.stock_quantity # None
                /\ product_data.stock_quantity[1] < 0
        THEN failed(1)
        ELSE LET r == ProductRepository_update(tbl, product_id, product_data)
                 w == update_product_in_cache(
                          c, product_id,
                          product_dict_isoformat(
                              ProductResponse_model_dump(existing_product[1])),
                          PRODUCT_TTL, t, o_set)
             IN  [exc |-> "", ret |-> r.ret, tbl |-> r.tbl,
                  cache |-> w.cache, repo |-> 2, calls |-> w.calls]

ProductService_update(tbl, c, t, redis_client, product_id, product_data, o_set) ==
    LET existing_product == ProductRepository_get_by_id(tbl, product_id)
        failed(n) == [exc |-> "ValueError", ret |-> None, tbl |-> tbl,
                      cache |-> c, repo |-> n, calls |-> <<>>]
    IN  IF existing_product = None THEN failed(1)
        ELSE IF product_data.price # None /\ product_data.price[1] <= 0
        THEN failed(1)
        ELSE IF /\ product_data.stock_quantity # None
                /\ product_data.stock_quantity[1] < 0
        THEN failed(1)
        ELSE LET r == ProductRepository_update(tbl, product_id, product_data)
                 w == IF redis_client /\ ProductResponse_valid(r.ret[1])
                      THEN update_product_in_cache(
                               c, product_id,
                               product_dict_isoformat(
                                   ProductResponse_model_dump(r.ret[1])),
                               PRODUCT_TTL, t, o_set)
                      ELSE [exc |-> "", ret |-> None, cache |-> c,
                            calls |-> <<>>]
             IN  \* except (ValueError, TypeError, redis.RedisError): logged
                 [exc |-> "", ret |-> r.ret, tbl |-> r.tbl,
                  cache |-> w.cache, repo |-> 2, calls |-> w.calls]

\* A delete that leaves the cache alone.
ProductService_delete_keeps_cache(tbl, c, redis_client, product_id, o_del) ==
    LET r == ProductRepository_delete(tbl, product_id)
    IN  IF r.exc # ""
        THEN [exc |-> r.exc, ret |-> None, tbl |-> tbl, cache |-> c,
              repo |-> 1, calls |-> <<>>]
        ELSE [exc |-> "", ret |-> None, tbl |-> r.tbl, cache |-> c,
              repo |-> 1, calls |-> <<>>]

ProductService_delete(tbl, c, redis_client, product_id, o_del) ==
    LET r == ProductRepository_delete(tbl, product_id)
    IN  IF r.exc # ""
        THEN [exc |-> r.exc, ret |-> None, tbl |-> tbl, cache |-> c,
              repo |-> 1, calls |-> <<>>]
        ELSE LET d == IF redis_client
                      THEN delete_product_from_cache(c, product_id, o_del)
                      ELSE [exc |-> "", ret |-> None, cache |-> c,
                            calls |-> <<>>]
             IN  [exc |-> "", ret |-> None, tbl |-> r.tbl, cache |-> d.cache,
                  repo |-> 1, calls |-> d.calls]


\* ------------------------------------------------------- app/redis_client
\* get_redis_client builds the client and pings the server; a ConnectionError
\* of the ping is logged and re-raised, a TimeoutError is not caught at all.
\* Returns [exc, client].
get_redis_client(o_ping) ==
    IF o_ping = "ok" THEN [exc |-> "", client |-> TRUE]
    ELSE [exc |-> o_ping, client |-> FALSE]

\* app/dependencies: the client is created for every request.
provide_redis_client(o_ping) == get_redis_client(o_ping)

\* ------------------------------------------------------------ request inputs
\* The outcomes of the redis calls one request can make: the ping of the
\* dependency provider and, when the ping succeeded, the calls of the
\* service method.
PingFailed == {"ConnectionError"}
PingOutcomes == [ping : {"ok"} \cup PingFailed]
ReadOutcomes == [ping : {"ok"}, get : Outcomes, del : Outcomes, set : Outcomes]
                \cup [ping : PingFailed, get : {"ok"}, del : {"ok"}, set : {"ok"}]
DelOutcomes == [ping : {"ok"}, del : Outcomes] \cup [ping : PingFailed, del : {"ok"}]
SetOutcomes == [ping : {"ok"}, set : Outcomes] \cup [ping : PingFailed, set : {"ok"}]

UserCreates == [username : Usernames, email : Emails, description : {None}]

\* A patch sets at most MaxPatchFields of the optional fields.
FieldsSet(patch) == Cardinality({f \in DOMAIN patch : patch[f] # None})

UserUpdates ==
    {d \in [username : {None} \cup {Some(u) : u \in Usernames},
            email : {None} \cup {Some(e) : e \in Emails},
            description : {None} \cup {Some(x) : x \in Descriptions}] :
        FieldsSet(d) <= MaxPatchFields}

ProductCreates == [name : Names, description : {None},
                   price : Prices \cup BadPrices,
                   stock_quantity : Stocks \cup BadStocks]

ProductUpdates ==
    {d \in [name : {None}, description : {None},
            price : {None} \cup {Some(p) : p \in Prices \cup BadPrices},
            stock_quantity : {None} \cup
                             {Some(q) : q \in Stocks \cup BadStocks}] :
        FieldsSet(d) <= MaxPatchFields}

\* A request in flight is [op, id, pc, ...]: the method, its argument, the
\* call it makes next and what it has read so far. A slot without one is Idle.
Slots == 1..MaxInflight
Idle == [op |-> "idle"]

\* The request served by the last step: service, method, id, the outcome of
\* the provider's ping, the TTL the id's key had when the request arrived (-2
\* when the key was absent), the exception that left the method ("" when it
\* returned), the returned entity, the number of repository calls and the
\* redis commands the method issued.
Served(svc, op, id, ping, ttl, r) ==
    [svc |-> svc, op |-> op, id |-> id, ping |-> ping, ttl |-> ttl,
     exc |-> r.exc, ret |-> r.ret, repo |-> r.repo, calls |-> r.calls]

\* The dependency provider raised: the controller and the service never ran.
NotServed(svc, op, id, ping, ttl) ==
    [svc |-> svc, op |-> op, id |-> id, ping |-> ping, ttl |-> ttl,
     exc |-> ping, ret |-> None, repo |-> 0, calls |-> <<>>]

\* No request was served by the last step.
NoRequest ==
    [svc |-> "", op |-> "", id |-> 0, ping |-> "", ttl |-> -2, exc |-> "",
     ret |-> None, repo |-> 0, calls |-> <<>>]

Init ==
    /\ users = <<>>
    /\ user_seq = 0
    /\ products = <<>>
    /\ product_seq = 0
    /\ cache = <<>>
    /\ now = 0
    /\ last = NoRequest
    /\ inflight = [s \in Slots |-> Idle]
    /\ orders = <<>>
    /\ order_items = <<>>
    /\ order_seq = 0
    /\ order_item_seq = 0
    /\ reports = <<>>
    /\ report_seq = 0
    /\ addresses = <<>>
    /\ commits = 0

\* ------------------------------------------------------- user controller
UserCreate(user_data, o) ==
    /\ user_seq + 1 \in UserIds
    /\ LET rc == provide_redis_client(o.ping)
       IN  IF rc.exc # ""
           THEN /\ last' = NotServed("user", "create", 0, o.ping, -2)
                /\ UNCHANGED <<users, user_seq>>
           ELSE LET r == UserService_create(users, user_seq, user_data)
                IN  /\ users' = r.tbl
                    /\ user_seq' = r.seq
                    /\ last' = Served("user", "create", r.seq, o.ping, -2,
                                      [r EXCEPT !.tbl = <<>>] @@
                                      [calls |-> <<>>])
    /\ UNCHANGED <<products, product_seq, cache, now,
                 inflight, order_vars>>

UserGetById(user_id, o) ==
    /\ LET rc == provide_redis_client(o.ping)
       IN  IF rc.exc # ""
           THEN /\ last' = NotServed("user", "get_by_id", user_id, o.ping,
                                     redis_ttl(cache, UserKey(user_id), now))
                /\ UNCHANGED cache
           ELSE LET r == UserService_get_by_id(users, cache, now, rc.client,
                                               user_id, o)
                IN  /\ cache' = r.cache
                    /\ last' = Served("user", "get_by_id", user_id, o.ping,
                                      redis_ttl(cache, UserKey(user_id), now), r)
    /\ UNCHANGED <<users, user_seq, products, product_seq, now,
                 inflight, order_vars>>

UserUpdate(user_id, user_data, o) ==
    /\ LET rc == provide_redis_client(o.ping)
       IN  IF rc.exc # ""
           THEN /\ last' = NotServed("user", "update", user_id, o.ping,
                                     redis_ttl(cache, UserKey(user_id), now))
                /\ UNCHANGED <<users, cache>>
           ELSE LET r == UserService_update(users, cache, rc.client, user_id,
                                            user_data, o.del)
                IN  /\ users' = r.tbl
                    /\ cache' = r.cache
                    /\ last' = Served("user", "update", user_id, o.ping,
                                      redis_ttl(cache, UserKey(user_id), now), r)
    /\ UNCHANGED <<user_seq, products, product_seq, now,
                 inflight, order_vars>>

UserDelete(user_id, o) ==
    /\ LET rc == provide_redis_client(o.ping)
       IN  IF rc.exc # ""
           THEN /\ last' = NotServed("user", "delete", user_id, o.ping,
                                     redis_ttl(cache, UserKey(user_id), now))
                /\ UNCHANGED <<users, cache>>
           ELSE LET r == UserService_delete(users, cache, rc.client, user_id,
                                            o.del)
                IN  /\ users' = r.tbl
                    /\ cache' = r.cache
                    /\ last' = Served("user", "delete", user_id, o.ping,
                                      redis_ttl(cache, UserKey(user_id), now), r)
    /\ UNCHANGED <<user_seq, products, product_seq, now,
                 inflight, order_vars>>

\* ---------------------------------------------------- product controller
ProductCreate(product_data, o) ==
    /\ product_seq + 1 \in ProductIds
    /\ LET rc == provide_redis_client(o.ping)
       IN  IF rc.exc # ""
           THEN /\ last' = NotServed("product", "create", 0, o.ping, -2)
                /\ UNCHANGED <<products, product_seq>>
           ELSE LET r == ProductService_create(products, product_seq,
                                               product_data)
                IN  /\ products' = r.tbl
                    /\ product_seq' = r.seq
                    /\ last' = Served("product", "create", r.seq, o.ping, -2,
                                      [r EXCEPT !.tbl = <<>>] @@
                                      [calls |-> <<>>])
    /\ UNCHANGED <<users, user_seq, cache, now,
                 inflight, order_vars>>

ProductGetById(product_id, o) ==
    /\ LET rc == provide_redis_client(o.ping)
       IN  IF rc.exc # ""
           THEN /\ last' = NotServed("product", "get_by_id", product_id, o.ping,
                                     redis_ttl(cache, ProductKey(product_id), now))
                /\ UNCHANGED cache
           ELSE LET r == ProductService_get_by_id(products, cache, now,
                                                  rc.client, product_id, o)
                IN  /\ cache' = r.cache
                    /\ last' = Served("product", "get_by_id", product_id, o.ping,
                                      redis_ttl(cache, ProductKey(product_id), now), r)
    /\ UNCHANGED <<users, user_seq, products, product_seq, now,
                 inflight, order_vars>>

ProductUpdate(product_id, product_data, o) ==
    /\ LET rc == provide_redis_client(o.ping)
       IN  IF rc.exc # ""
           THEN /\ last' = NotServed("product", "update", product_id, o.ping,
                                     redis_ttl(cache, ProductKey(product_id), now))
                /\ UNCHANGED <<products, cache>>
           ELSE LET r == ProductService_update(products, cache, now,
                                               rc.client, product_id,
                                               product_data, o.set)
                IN  /\ products' = r.tbl
                    /\ cache' = r.cache
                    /\ last' = Served("product", "update", product_id, o.ping,
                                      redis_ttl(cache, ProductKey(product_id), now), r)
    /\ UNCHANGED <<users, user_seq, product_seq, now,
                 inflight, order_vars>>

ProductDelete(product_id, o) ==
    /\ LET rc == provide_redis_client(o.ping)
       IN  IF rc.exc # ""
           THEN /\ last' = NotServed("product", "delete", product_id, o.ping,
                                     redis_ttl(cache, ProductKey(product_id), now))
                /\ UNCHANGED <<products, cache>>
           ELSE LET r == ProductService_delete(products, cache, rc.client,
                                               product_id, o.del)
                IN  /\ products' = r.tbl
                    /\ cache' = r.cache
                    /\ last' = Served("product", "delete", product_id, o.ping,
                                      redis_ttl(cache, ProductKey(product_id), now), r)
    /\ UNCHANGED <<users, user_seq, product_seq, now,
                 inflight, order_vars>>

\* ------------------------------------------------------------ redis expiry
\* Time passes; the server removes every key whose expiry has been reached.
Tick ==
    /\ now < MaxTicks * TickSeconds
    /\ now' = now + TickSeconds
    /\ cache' = [k \in {j \in DOMAIN cache :
                          \/ cache[j].expire_at = NoExpiry
                          \/ cache[j].expire_at > now + TickSeconds}
                    |-> cache[k]]
    /\ last' = NoRequest
    /\ UNCHANGED <<users, user_seq, products, product_seq,
                 inflight, order_vars>>

NextUser ==
    \/ \E d \in UserCreates, o \in PingOutcomes : UserCreate(d, o)
    \/ \E id \in UserIds, o \in ReadOutcomes : UserGetById(id, o)
    \/ \E id \in UserIds, d \in UserUpdates, o \in DelOutcomes :
          UserUpdate(id, d, o)
    \/ \E id \in UserIds, o \in DelOutcomes : UserDelete(id, o)
    \/ Tick

NextProduct ==
    \/ \E d \in ProductCreates, o \in PingOutcomes : ProductCreate(d, o)
    \/ \E id \in ProductIds, o \in ReadOutcomes : ProductGetById(id, o)
    \/ \E id \in ProductIds, d \in ProductUpdates, o \in SetOutcomes :
          ProductUpdate(id, d, o)
    \/ \E id \in ProductIds, o \in DelOutcomes : ProductDelete(id, o)
    \/ Tick

\* UserService and ProductService share no row and no cache key, so the states
\* of the whole system are the pairs of a state of each; a run of Spec
\* exercises one of the two controllers.
Next ==
    \/ product_seq = 0 /\ NextUser
    \/ user_seq = 0 /\ NextProduct

Spec == Init /\ [][Next]_vars

SpecUser == Init /\ [][NextUser]_vars

SpecProduct == Init /\ [][NextProduct]_vars


\* -------------------------------------------------------- app/rabbitmq_consumer
\* get_product_service of the consumer builds ProductService(product_repository):
\* the service of the message handlers has no redis client.
get_product_service == [redis_client |-> FALSE]

\* subscribe_product_update: the handler of the "product_update" queue. It
\* logs a ValueError of the service; last records the service's outcome.
SubscribeProductUpdate(product_id, product_data) ==
    LET r == ProductService_update(products, cache, now,
                                   get_product_service.redis_client,
                                   product_id, product_data, "ok")
    IN  /\ products' = r.tbl
        /\ cache' = r.cache
        /\ last' = Served("product", "product_update", product_id, "",
                          redis_ttl(cache, ProductKey(product_id), now), r)
        /\ UNCHANGED <<users, user_seq, product_seq, now,
                     inflight, order_vars>>

NextConsumer ==
    \/ NextProduct
    \/ \E id \in ProductIds, d \in ProductUpdates :
          SubscribeProductUpdate(id, d)

SpecConsumer == Init /\ [][NextConsumer]_vars


\* ------------------------------------------ services without a redis client
\* lab2/app/services/user_service.py: the UserService that has a repository
\* and nothing else. Returns [exc, ret, tbl, repo].
lab2_UserService_get_by_id(tbl, user_id) ==
    [exc |-> "", ret |-> UserRepository_get_by_id(tbl, user_id), tbl |-> tbl,
     repo |-> 1]

lab2_UserService_update(tbl, user_id, user_data) ==
    LET existing_user == UserRepository_get_by_id(tbl, user_id)
        failed(n) == [exc |-> "ValueError", ret |-> None, tbl |-> tbl,
                      repo |-> n]
    IN  IF existing_user = None THEN failed(1)
        ELSE IF /\ user_data.email # None
                /\ user_data.email[1] # existing_user[1].email
                /\ UserService_check_email_exists(tbl, user_data.email[1])
        THEN failed(1)
        ELSE IF /\ user_data.username # None
                /\ user_data.username[1] # existing_user[1].username
                /\ UserService_check_username_exists(tbl,
                                                     user_data.username[1])
        THEN failed(1)
        ELSE LET r == UserRepository_update(tbl, user_id, user_data)
             IN  [exc |-> "", ret |-> r.ret, tbl |-> r.tbl, repo |-> 2]

lab2_UserService_delete(tbl, user_id) ==
    LET r == UserRepository_delete(tbl, user_id)
    IN  IF r.exc # ""
        THEN [exc |-> r.exc, ret |-> None, tbl |-> tbl, repo |-> 1]
        ELSE [exc |-> "", ret |-> None, tbl |-> r.tbl, repo |-> 1]

\* A service that was handed a client.
user_service_with_client == [redis_client |-> TRUE]

\* UserService(user_repository): redis_client keeps its default, None.
user_service == [redis_client |-> FALSE]

\* The outcomes the redis calls of one method would have, were they made:
\* the server is in one condition for the whole method.
CallOutcomes == {[get |-> x, del |-> x, set |-> x] : x \in Outcomes}

\* Without a client there is no call whose outcome could be drawn.
NoCall == [get |-> "ok", del |-> "ok", set |-> "ok"]

\* The methods called on user_service directly, with no dependency provider.
UserServiceGetById(user_id) ==
    LET r == UserService_get_by_id(users, cache, now,
                                   user_service.redis_client, user_id,
                                   NoCall)
    IN  /\ cache' = r.cache
        /\ last' = Served("user", "get_by_id", user_id, "",
                          redis_ttl(cache, UserKey(user_id), now), r)
        /\ UNCHANGED <<users, user_seq, products, product_seq, now,
                     inflight, order_vars>>

UserServiceUpdate(user_id, user_data) ==
    LET r == UserService_update(users, cache, user_service.redis_client,
                                user_id, user_data, NoCall.del)
    IN  /\ users' = r.tbl
        /\ cache' = r.cache
        /\ last' = Served("user", "update", user_id, "",
                          redis_ttl(cache, UserKey(user_id), now), r)
        /\ UNCHANGED <<user_seq, products, product_seq, now,
                     inflight, order_vars>>

UserServiceDelete(user_id) ==
    LET r == UserService_delete(users, cache, user_service.redis_client,
                                user_id, NoCall.del)
    IN  /\ users' = r.tbl
        /\ cache' = r.cache
        /\ last' = Served("user", "delete", user_id, "",
                          redis_ttl(cache, UserKey(user_id), now), r)
        /\ UNCHANGED <<user_seq, products, product_seq, now,
                     inflight, order_vars>>

\* The cache is filled by the reads of the API, whose service has a client.
NextNoClient ==
    \/ \E d \in UserCreates, o \in PingOutcomes : UserCreate(d, o)
    \/ \E id \in UserIds, o \in ReadOutcomes : UserGetById(id, o)
    \/ Tick
    \/ \E id \in UserIds : UserServiceGetById(id)
    \/ \E id \in UserIds, d \in UserUpdates : UserServiceUpdate(id, d)
    \/ \E id \in UserIds : UserServiceDelete(id)

SpecNoClient == Init /\ [][NextNoClient]_vars


\* ------------------------------------------------------ interleaved requests
\* The handlers are coroutines (and the app may run in several workers): a
\* request gives way at every awaited repository call, and the redis calls of
\* another request can fall between its repository call and its own redis
\* call. One step is one cache call or one repository call of one request; the
\* store answers every command.

Finish(s) == inflight' = [inflight EXCEPT ![s] = Idle]

Goto(s, pc) == inflight' = [inflight EXCEPT ![s].pc = pc]

InflightUpdates == {d \in UserUpdates : d.email # None}

\* UserService.get_by_id, call by call.
BeginUserGetById(s, user_id) ==
    /\ inflight[s] = Idle
    /\ inflight' = [inflight EXCEPT ![s] =
                       [op |-> "get_by_id", id |-> user_id, pc |-> "cache_get",
                        user |-> None]]
    /\ UNCHANGED <<users, user_seq, products, product_seq, cache, now, last,
                   order_vars>>

\* get_user_from_cache: a hit returns the rebuilt user.
UserGetByIdCacheGet(s) ==
    /\ inflight[s].op = "get_by_id" /\ inflight[s].pc = "cache_get"
    /\ LET g == get_user_from_cache(cache, inflight[s].id, "ok", "ok")
       IN  /\ cache' = g.cache
           /\ IF g.exc # "" \/ g.ret # None
              THEN Finish(s)
              ELSE Goto(s, "select")
    /\ UNCHANGED <<users, user_seq, products, product_seq, now, last,
                   order_vars>>

\* await self.user_repository.get_by_id(session, user_id)
UserGetByIdSelect(s) ==
    /\ inflight[s].op = "get_by_id" /\ inflight[s].pc = "select"
    /\ LET user == UserRepository_get_by_id(users, inflight[s].id)
       IN  IF user = None
           THEN Finish(s)
           ELSE inflight' = [inflight EXCEPT ![s].pc = "cache_set",
                                             ![s].user = user]
    /\ UNCHANGED <<users, user_seq, products, product_seq, cache, now, last,
                   order_vars>>

\* set_user_to_cache with the row the request has read.
UserGetByIdCacheSet(s) ==
    /\ inflight[s].op = "get_by_id" /\ inflight[s].pc = "cache_set"
    /\ cache' = set_user_to_cache(
                    cache, inflight[s].id,
                    user_dict_isoformat(
                        UserResponse_model_dump(inflight[s].user[1])),
                    USER_TTL, now, "ok").cache
    /\ Finish(s)
    /\ UNCHANGED <<users, user_seq, products, product_seq, now, last,
                   order_vars>>

\* UserService.update, call by call.
BeginUserUpdate(s, user_id, user_data) ==
    /\ inflight[s] = Idle
    /\ inflight' = [inflight EXCEPT ![s] =
                       [op |-> "update", id |-> user_id, pc |-> "select",
                        user_data |-> user_data, user |-> None]]
    /\ UNCHANGED <<users, user_seq, products, product_seq, cache, now, last,
                   order_vars>>

\* existing_user = await self.user_repository.get_by_id(session, user_id)
UserUpdateSelect(s) ==
    /\ inflight[s].op = "update" /\ inflight[s].pc = "select"
    /\ LET existing_user == UserRepository_get_by_id(users, inflight[s].id)
       IN  IF existing_user = None
           THEN Finish(s)
           ELSE inflight' = [inflight EXCEPT ![s].pc = "check",
                                             ![s].user = existing_user]
    /\ UNCHANGED <<users, user_seq, products, product_seq, cache, now, last,
                   order_vars>>

\* The awaited uniqueness checks against existing_user.
UserUpdateCheck(s) ==
    /\ inflight[s].op = "update" /\ inflight[s].pc = "check"
    /\ LET user_data == inflight[s].user_data
           existing_user == inflight[s].user
       IN  IF \/ /\ user_data.email # None
                 /\ user_data.email[1] # existing_user[1].email
                 /\ UserService_check_email_exists(users, user_data.email[1])
              \/ /\ user_data.username # None
                 /\ user_data.username[1] # existing_user[1].username
                 /\ UserService_check_username_exists(
                        users, user_data.username[1])
           THEN Finish(s)
           ELSE Goto(s, "commit")
    /\ UNCHANGED <<users, user_seq, products, product_seq, cache, now, last,
                   order_vars>>

\* await self.user_repository.update(...); await session.commit()
UserUpdateCommit(s) ==
    /\ inflight[s].op = "update" /\ inflight[s].pc = "commit"
    /\ LET r == UserRepository_update(users, inflight[s].id,
                                      inflight[s].user_data)
       IN  IF r.exc # "" \/ ~users_unique(r.tbl)
           THEN \* ValueError, or IntegrityError of the flush
                Finish(s) /\ UNCHANGED users
           ELSE users' = r.tbl /\ Goto(s, "invalidate")
    /\ UNCHANGED <<user_seq, products, product_seq, cache, now, last,
                   order_vars>>

\* delete_user_from_cache
UserUpdateInvalidate(s) ==
    /\ inflight[s].op = "update" /\ inflight[s].pc = "invalidate"
    /\ cache' = delete_user_from_cache(cache, inflight[s].id, "ok").cache
    /\ Finish(s)
    /\ UNCHANGED <<users, user_seq, products, product_seq, now, last,
                   order_vars>>

\* The rows are created by requests that run alone.
UserCreateAlone(user_data) ==
    /\ \A s \in Slots : inflight[s] = Idle
    /\ UserCreate(user_data, [ping |-> "ok"])

NextInterleaved ==
    \/ \E d \in UserCreates : UserCreateAlone(d)
    \/ \E s \in Slots, id \in UserIds : BeginUserGetById(s, id)
    \/ \E s \in Slots : UserGetByIdCacheGet(s)
    \/ \E s \in Slots : UserGetByIdSelect(s)
    \/ \E s \in Slots : UserGetByIdCacheSet(s)
    \/ \E s \in Slots, id \in UserIds, d \in InflightUpdates :
          BeginUserUpdate(s, id, d)
    \/ \E s \in Slots : UserUpdateSelect(s)
    \/ \E s \in Slots : UserUpdateCheck(s)
    \/ \E s \in Slots : UserUpdateCommit(s)
    \/ \E s \in Slots : UserUpdateInvalidate(s)

SpecInterleaved == Init /\ [][NextInterleaved]_vars


\* ---------------------------------------- app/repositories/order_repository
\* The orders and order_items tables are functions from the ids of the stored
\* rows to the rows; an order item refers to its order by order_id.

\* Items that keep the price of the whole line, price times quantity, in
\* price_at_order.
OrderRepository_create_items_line_price(ptbl, items, i, order_id, itbl, item_seq) ==
    IF \E j \in DOMAIN items : items[j].product_id \notin DOMAIN ptbl
    THEN [exc |-> "ValueError", order_items |-> itbl, item_seq |-> item_seq]
    ELSE [exc |-> "",
          order_items |->
              [k \in DOMAIN itbl \cup (item_seq + 1)..(item_seq + Len(items))
                  |-> IF k \in DOMAIN itbl THEN itbl[k]
                      ELSE [id |-> k, order_id |-> order_id,
                            product_id |-> items[k - item_seq].product_id,
                            quantity |-> items[k - item_seq].quantity,
                            price_at_order |->
                                ptbl[items[k - item_seq].product_id].price
                                * items[k - item_seq].quantity]],
          item_seq |-> item_seq + Len(items)]

\* for item_data in order_data.items: select the product, add an OrderItem
\* that keeps the product's price. Returns [exc, order_items, item_seq].
RECURSIVE OrderRepository_create_items(_, _, _, _, _, _)
OrderRepository_create_items(ptbl, items, i, order_id, itbl, item_seq) ==
    IF i > Len(items)
    THEN [exc |-> "", order_items |-> itbl, item_seq |-> item_seq]
    ELSE LET item_data == items[i]
             product == ProductRepository_get_by_id(ptbl, item_data.product_id)
         IN  IF product = None
             THEN [exc |-> "ValueError", order_items |-> itbl,
                   item_seq |-> item_seq]
             ELSE OrderRepository_create_items(
                      ptbl, items, i + 1, order_id,
                      (item_seq + 1 :>
                          [id |-> item_seq + 1,
                           order_id |-> order_id,
                           product_id |-> item_data.product_id,
                           quantity |-> item_data.quantity,
                           price_at_order |-> product[1].price]) @@ itbl,
                      item_seq + 1)

\* Returns [exc, ret, orders, order_items, seq, item_seq]; a ValueError leaves
\* the session's transaction uncommitted, so the tables are as they were.
OrderRepository_create(otbl, itbl, seq, item_seq, ptbl, order_data, total_price) ==
    LET order == [id |-> seq + 1,
                  user_id |-> order_data.user_id,
                  delivery_address_id |-> order_data.delivery_address_id,
                  total_price |-> total_price,
                  status |-> IF order_data.status # None
                             THEN order_data.status[1] ELSE "pending",
                  order_date |-> datetime_now,
                  created_at |-> datetime_now,
                  updated_at |-> Some(datetime_now)]
        r == OrderRepository_create_items(ptbl, order_data.items, 1, seq + 1,
                                          itbl, item_seq)
    IN  IF r.exc # ""
        THEN [exc |-> r.exc, ret |-> None, orders |-> otbl,
              order_items |-> itbl, seq |-> seq, item_seq |-> item_seq]
        ELSE [exc |-> "", ret |-> Some(order),
              orders |-> (seq + 1 :> order) @@ otbl,
              order_items |-> r.order_items, seq |-> seq + 1,
              item_seq |-> r.item_seq]

OrderRepository_get_by_id(otbl, order_id) ==
    IF order_id \in DOMAIN otbl THEN Some(otbl[order_id]) ELSE None

\* model_dump(exclude_unset=True) filtered on "v is not None", then setattr:
\* OrderUpdate has the one field status.
apply_order_patch(row, order_data) ==
    [row EXCEPT !.status = IF order_data.status # None
                           THEN order_data.status[1] ELSE @]

\* Returns [exc, ret, orders, order_items]: the two tables of the session.
OrderRepository_update(otbl, itbl, order_id, order_data) ==
    IF OrderRepository_get_by_id(otbl, order_id) = None
    THEN [exc |-> "ValueError", ret |-> None, orders |-> otbl,
          order_items |-> itbl]
    ELSE LET patched == apply_order_patch(otbl[order_id], order_data)
             row == IF patched = otbl[order_id] THEN patched
                    ELSE [patched EXCEPT !.updated_at = Some(datetime_now)]
         IN  [exc |-> "", ret |-> Some(row),
              orders |-> [otbl EXCEPT ![order_id] = row],
              order_items |-> itbl]

\* A delete that removes the order and leaves its items.
OrderRepository_delete_keeps_items(otbl, itbl, order_id) ==
    IF OrderRepository_get_by_id(otbl, order_id) = None
    THEN [exc |-> "ValueError", orders |-> otbl, order_items |-> itbl]
    ELSE [exc |-> "",
          orders |-> [k \in DOMAIN otbl \ {order_id} |-> otbl[k]],
          order_items |-> itbl]

\* session.delete(order) with Order.items loaded: cascade="all,
\* delete-orphan" deletes the items of the order with it.
\* Returns [exc, orders, order_items].
OrderRepository_delete(otbl, itbl, order_id) ==
    IF OrderRepository_get_by_id(otbl, order_id) = None
    THEN [exc |-> "ValueError", orders |-> otbl, order_items |-> itbl]
    ELSE [exc |-> "",
          orders |-> [k \in DOMAIN otbl \ {order_id} |-> otbl[k]],
          order_items |-> [i \in {j \in DOMAIN itbl :
                                    itbl[j].order_id # order_id}
                              |-> itbl[i]]]

\* ------------------------------------------------ app/services/order_service

\* The loop that checks the items: for each one the product must exist and
\* hold at least the quantity asked for. products_to_update collects
\* <<product id, quantity>>. Returns [exc, total_price, products_to_update].
RECURSIVE OrderService_check_items(_, _, _, _, _)
OrderService_check_items(ptbl, items, i, total_price, products_to_update) ==
    IF i > Len(items)
    THEN [exc |-> "", total_price |-> total_price,
          products_to_update |-> products_to_update]
    ELSE LET item_data == items[i]
             product == ProductRepository_get_by_id(ptbl, item_data.product_id)
             failed == [exc |-> "ValueError", total_price |-> total_price,
                        products_to_update |-> products_to_update]
         IN  IF product = None THEN failed
             ELSE IF product[1].stock_quantity < item_data.quantity
             THEN failed
             ELSE OrderService_check_items(
                      ptbl, items, i + 1,
                      total_price + product[1].price * item_data.quantity,
                      Append(products_to_update,
                             <<product[1].id, item_data.quantity>>))

\* A decrement that takes one unit of each product named, whatever the
\* quantity.
OrderService_decrement_by_unit(ptbl, products_to_update, i) ==
    [id \in DOMAIN ptbl |->
        IF \E j \in DOMAIN products_to_update : products_to_update[j][1] = id
        THEN [ptbl[id] EXCEPT !.stock_quantity = @ - 1,
                              !.updated_at = Some(datetime_now)]
        ELSE ptbl[id]]

\* for product, quantity in products_to_update: product.stock_quantity -=
\* quantity. The session holds one object per row, so two entries of the same
\* product decrement the same row twice.
RECURSIVE OrderService_decrement(_, _, _)
OrderService_decrement(ptbl, products_to_update, i) ==
    IF i > Len(products_to_update) THEN ptbl
    ELSE LET id == products_to_update[i][1]
             quantity == products_to_update[i][2]
         IN  OrderService_decrement(
                 [ptbl EXCEPT ![id].stock_quantity = @ - quantity,
                              ![id].updated_at = Some(datetime_now)],
                 products_to_update, i + 1)

\* A create that does not compare the quantity with the stock.
OrderService_create_unchecked_stock(utbl, atbl, ptbl, otbl, itbl, seq, item_seq, n_commits, order_data) ==
    LET failed == [exc |-> "ValueError", ret |-> None, repo |-> 0,
                   calls |-> <<>>, products |-> ptbl, orders |-> otbl,
                   order_items |-> itbl, seq |-> seq, item_seq |-> item_seq,
                   commits |-> n_commits]
    IN  IF order_data.user_id \notin DOMAIN utbl THEN failed
        ELSE IF order_data.delivery_address_id \notin DOMAIN atbl THEN failed
        ELSE IF atbl[order_data.delivery_address_id].user_id
                # order_data.user_id
        THEN failed
        ELSE IF \E i \in DOMAIN order_data.items :
                   order_data.items[i].product_id \notin DOMAIN ptbl
        THEN failed
        ELSE LET ptu == [i \in DOMAIN order_data.items |->
                           <<order_data.items[i].product_id,
                             order_data.items[i].quantity>>]
                 r == OrderRepository_create(otbl, itbl, seq, item_seq, ptbl,
                                             order_data, 0)
             IN  [exc |-> "", ret |-> r.ret, repo |-> 1, calls |-> <<>>,
                  products |-> OrderService_decrement(ptbl, ptu, 1),
                  orders |-> r.orders, order_items |-> r.order_items,
                  seq |-> r.seq, item_seq |-> r.item_seq,
                  commits |-> n_commits + 1]

\* Returns [exc, ret, repo, calls, products, orders, order_items, seq,
\* item_seq, commits]: repo counts the calls of order_repository.create and
\* commits the calls of session.commit.
OrderService_create(utbl, atbl, ptbl, otbl, itbl, seq, item_seq, n_commits, order_data) ==
    LET failed == [exc |-> "ValueError", ret |-> None, repo |-> 0,
                   calls |-> <<>>, products |-> ptbl, orders |-> otbl,
                   order_items |-> itbl, seq |-> seq, item_seq |-> item_seq,
                   commits |-> n_commits]
    IN  IF order_data.user_id \notin DOMAIN utbl THEN failed
        ELSE IF order_data.delivery_address_id \notin DOMAIN atbl THEN failed
        ELSE IF atbl[order_data.delivery_address_id].user_id
                # order_data.user_id
        THEN failed
        ELSE LET c == OrderService_check_items(ptbl, order_data.items, 1, 0,
                                               <<>>)
             IN  IF c.exc # "" THEN failed
                 ELSE LET r == OrderRepository_create(
                                   otbl, itbl, seq, item_seq, ptbl,
                                   order_data, c.total_price)
                      IN  IF r.exc # ""
                          THEN [failed EXCEPT !.exc = r.exc, !.repo = 1]
                          ELSE [exc |-> "", ret |-> r.ret, repo |-> 1,
                                calls |-> <<>>,
                                products |-> OrderService_decrement(
                                    ptbl, c.products_to_update, 1),
                                orders |-> r.orders,
                                order_items |-> r.order_items,
                                seq |-> r.seq, item_seq |-> r.item_seq,
                                commits |-> n_commits + 1]

\* Returns [exc, ret, repo, calls, orders, order_items, commits].
OrderService_update(otbl, itbl, n_commits, order_id, order_data) ==
    IF OrderRepository_get_by_id(otbl, order_id) = None
    THEN [exc |-> "ValueError", ret |-> None, repo |-> 1, calls |-> <<>>,
          orders |-> otbl, order_items |-> itbl, commits |-> n_commits]
    ELSE LET r == OrderRepository_update(otbl, itbl, order_id, order_data)
         IN  [exc |-> "", ret |-> r.ret, repo |-> 2, calls |-> <<>>,
              orders |-> r.orders, order_items |-> r.order_items,
              commits |-> n_commits + 1]

\* Returns [exc, ret, repo, calls, orders, order_items, commits].
OrderService_delete(otbl, itbl, n_commits, order_id) ==
    LET r == OrderRepository_delete(otbl, itbl, order_id)
    IN  IF r.exc # ""
        THEN [exc |-> r.exc, ret |-> None, repo |-> 1, calls |-> <<>>,
              orders |-> otbl, order_items |-> itbl, commits |-> n_commits]
        ELSE [exc |-> "", ret |-> None, repo |-> 1, calls |-> <<>>,
              orders |-> r.orders, order_items |-> r.order_items,
              commits |-> n_commits + 1]

\* --------------------------------------------- app/controllers/order_controller
\* OrderCreate of app/schemas/order_schema: ids and quantities are positive and
\* there is at least one item. Id 3 names no user and no product, id 2 no
\* address.
AddressIds == {1}
Quantities == {1, 2}
OrderItemCreates == [product_id : ProductIds \cup {3}, quantity : Quantities]
ItemLists == UNION {[1..n -> OrderItemCreates] : n \in 1..MaxItems}
OrderCreates ==
    [user_id : UserIds \cup {3}, delivery_address_id : AddressIds \cup {2},
     items : ItemLists, status : {None}]

\* create_order: a ValueError of the service is answered with HTTP 400; last
\* records the service's outcome and the id of the order it created.
OrderCreate(order_data) ==
    /\ order_seq < MaxOrders
    /\ LET r == OrderService_create(users, addresses, products, orders,
                                    order_items, order_seq, order_item_seq,
                                    commits, order_data)
       IN  /\ products' = r.products
           /\ orders' = r.orders
           /\ order_items' = r.order_items
           /\ order_seq' = r.seq
           /\ order_item_seq' = r.item_seq
           /\ commits' = r.commits
           /\ last' = Served("order", "create",
                             IF r.ret = None THEN 0 ELSE r.ret[1].id, "", -2,
                             r)
    /\ UNCHANGED <<users, user_seq, product_seq, cache, now, inflight,
                   addresses, reports, report_seq>>

\* OrderUpdate of app/schemas/order_schema: the status, or nothing.
OrderUpdates == [status : {None, Some("completed")}]

\* The ids an order can have, and one no order has.
OrderIds == 1..(MaxOrders + 1)

\* update_order: a ValueError is answered with HTTP 404 or 400.
OrderUpdate(order_id, order_data) ==
    /\ commits < MaxCommits
    /\ LET r == OrderService_update(orders, order_items, commits, order_id,
                                    order_data)
       IN  /\ orders' = r.orders
           /\ order_items' = r.order_items
           /\ commits' = r.commits
           /\ last' = Served("order", "update", order_id, "", -2, r)
    /\ UNCHANGED <<users, user_seq, products, product_seq, cache, now,
                   inflight, order_seq, order_item_seq, addresses, reports,
                   report_seq>>

\* delete_order: a ValueError is answered with HTTP 404.
OrderDelete(order_id) ==
    /\ commits < MaxCommits
    /\ LET r == OrderService_delete(orders, order_items, commits, order_id)
       IN  /\ orders' = r.orders
           /\ order_items' = r.order_items
           /\ commits' = r.commits
           /\ last' = Served("order", "delete", order_id, "", -2, r)
    /\ UNCHANGED <<users, user_seq, products, product_seq, cache, now,
                   inflight, order_seq, order_item_seq, addresses, reports,
                   report_seq>>

\* The store the orders are placed in: two users, the one address (it is the
\* second user's) and two products with one or two units in stock.
SeedStocks == {1, 2}

SeedUser(id, username, email) ==
    [id |-> id, username |-> username, email |-> email, description |-> None,
     created_at |-> datetime_now, updated_at |-> None]

SeedProduct(id, price, stock_quantity) ==
    [id |-> id, name |-> "pen", description |-> None, price |-> price,
     stock_quantity |-> stock_quantity, created_at |-> datetime_now,
     updated_at |-> None]

InitOrders ==
    /\ users = (1 :> SeedUser(1, "alice", "a@x.io"))
               @@ (2 :> SeedUser(2, "bob", "b@x.io"))
    /\ user_seq = 2
    /\ addresses = (1 :> [id |-> 1, user_id |-> 2])
    /\ \E s1 \in SeedStocks, s2 \in SeedStocks :
          products = (1 :> SeedProduct(1, 10, s1))
                     @@ (2 :> SeedProduct(2, 12, s2))
    /\ product_seq = 2
    /\ cache = <<>>
    /\ now = 0
    /\ last = NoRequest
    /\ inflight = [s \in Slots |-> Idle]
    /\ orders = <<>>
    /\ order_items = <<>>
    /\ order_seq = 0
    /\ order_item_seq = 0
    /\ reports = <<>>
    /\ report_seq = 0
    /\ commits = 0

NextOrders == \E d \in OrderCreates : OrderCreate(d)

SpecOrders == InitOrders /\ [][NextOrders]_vars


\* ------------------------------------------- app/rabbitmq_consumer, orders
\* A handler that leaves the out-of-stock test to the service.
subscribe_order_create_skips_stock(utbl, atbl, ptbl, c, t, otbl, itbl, seq, item_seq, n_commits, order_data) ==
    LET rejected == [exc |-> "", ret |-> None, repo |-> 0, calls |-> <<>>,
                     products |-> ptbl, orders |-> otbl, order_items |-> itbl,
                     seq |-> seq, item_seq |-> item_seq,
                     commits |-> n_commits, service_calls |-> 0]
    IN  IF \E i \in DOMAIN order_data.items :
              order_data.items[i].product_id \notin DOMAIN ptbl
        THEN rejected
        ELSE LET r == OrderService_create(utbl, atbl, ptbl, otbl, itbl, seq,
                                          item_seq, n_commits, order_data)
             IN  r @@ [service_calls |-> 1]

\* subscribe_order_create, the handler of the "order" queue: it reads every
\* item's product through the consumer's ProductService and returns when one
\* is missing or when one has stock_quantity 0; otherwise it calls
\* OrderService.create and logs a ValueError. Returns the record of
\* OrderService_create with exc the exception the service raised and
\* service_calls the number of calls of OrderService.create.
subscribe_order_create(utbl, atbl, ptbl, c, t, otbl, itbl, seq, item_seq, n_commits, order_data) ==
    LET product(i) ==
            ProductService_get_by_id(ptbl, c, t,
                                     get_product_service.redis_client,
                                     order_data.items[i].product_id,
                                     NoCall).ret
        out_of_stock_products ==
            {i \in DOMAIN order_data.items :
                product(i) # None /\ product(i)[1].stock_quantity = 0}
        rejected == [exc |-> "", ret |-> None, repo |-> 0, calls |-> <<>>,
                     products |-> ptbl, orders |-> otbl, order_items |-> itbl,
                     seq |-> seq, item_seq |-> item_seq,
                     commits |-> n_commits, service_calls |-> 0]
    IN  IF \E i \in DOMAIN order_data.items : product(i) = None
        THEN rejected
        ELSE IF out_of_stock_products # {} THEN rejected
        ELSE LET r == OrderService_create(utbl, atbl, ptbl, otbl, itbl, seq,
                                          item_seq, n_commits, order_data)
             IN  r @@ [service_calls |-> 1]

\* last.exc is the ValueError the handler logged; a message is answered with
\* no exception.
SubscribeOrderCreate(order_data) ==
    /\ order_seq < MaxOrders
    /\ LET r == subscribe_order_create(users, addresses, products, cache, now,
                                       orders, order_items, order_seq,
                                       order_item_seq, commits, order_data)
       IN  /\ products' = r.products
           /\ orders' = r.orders
           /\ order_items' = r.order_items
           /\ order_seq' = r.seq
           /\ order_item_seq' = r.item_seq
           /\ commits' = r.commits
           /\ last' = Served("order", "order_create",
                             IF r.ret = None THEN 0 ELSE r.ret[1].id, "", -2,
                             [r EXCEPT !.repo = r.service_calls])
    /\ UNCHANGED <<users, user_seq, product_seq, cache, now, inflight,
                   addresses, reports, report_seq>>

\* The messages name the owner of the address and the address; their items
\* name any product, stored or not.
OrderMessages ==
    {d \in OrderCreates : d.user_id = 2 /\ d.delivery_address_id = 1}

NextOrderConsumer == \E d \in OrderMessages : SubscribeOrderCreate(d)

SpecOrderConsumer == InitOrders /\ [][NextOrderConsumer]_vars


\* ---------------------------------------------------------- stored records
\* The rows a table can hold, description and updated_at each null or set.
Instants == {datetime(0), datetime(1)}

UserRows ==
    [id : UserIds, username : Usernames, email : Emails,
     description : {None, Some("about")}, created_at : Instants,
     updated_at : {None} \cup {Some(d) : d \in Instants}]

ProductRows ==
    [id : ProductIds, name : Names, description : {None, Some("about")},
     price : Prices, stock_quantity : Stocks \cup {0},
     created_at : Instants,
     updated_at : {None} \cup {Some(d) : d \in Instants}]

\* One stored row, nothing cached.
InitStored ==
    /\ \/ \E row \in UserRows :
             /\ users = (row.id :> row) /\ user_seq = row.id
             /\ products = <<>> /\ product_seq = 0
       \/ \E row \in ProductRows :
             /\ products = (row.id :> row) /\ product_seq = row.id
             /\ users = <<>> /\ user_seq = 0
    /\ cache = <<>>
    /\ now = 0
    /\ last = NoRequest
    /\ inflight = [s \in Slots |-> Idle]
    /\ orders = <<>>
    /\ order_items = <<>>
    /\ order_seq = 0
    /\ order_item_seq = 0
    /\ reports = <<>>
    /\ report_seq = 0
    /\ addresses = <<>>
    /\ commits = 0

NextRead ==
    \/ \E id \in UserIds, o \in ReadOutcomes :
          user_seq > 0 /\ UserGetById(id, o)
    \/ \E id \in ProductIds, o \in ReadOutcomes :
          product_seq > 0 /\ ProductGetById(id, o)
    \/ Tick

SpecRoundTrip == InitStored /\ [][NextRead]_vars


\* ------------------------------------------------------- repository updates
\* ProductRepository.update called with a session, as the repository's tests
\* call it; last.repo is the one call.
ProductRepositoryUpdate(product_id, product_data) ==
    /\ LET r == ProductRepository_update(products, product_id, product_data)
       IN  /\ products' = r.tbl
           /\ last' = Served("product", "repository_update", product_id, "",
                             -2, r @@ [repo |-> 1, calls |-> <<>>])
    /\ UNCHANGED <<users, user_seq, product_seq, cache, now, inflight,
                   order_vars>>

\* The orders the owner of the address places for single units of products
\* that exist.
WellFormedOrders ==
    {d \in OrderCreates :
        /\ d.user_id = 2 /\ d.delivery_address_id = 1
        /\ \A i \in DOMAIN d.items :
              /\ d.items[i].product_id \in ProductIds
              /\ d.items[i].quantity = 1}

\* The store holds product rows and nothing else (a stored row next to a
\* seeded one, no user and no address, so that no order can be placed), or it
\* is the store the orders are placed in.
InitRepositories ==
    \/ InitOrders
    \/ /\ \E row \in ProductRows :
             /\ row.id = 1
             /\ products = (1 :> row) @@ (2 :> SeedProduct(2, 12, 1))
       /\ product_seq = 2
       /\ users = <<>>
       /\ user_seq = 0
       /\ addresses = <<>>
       /\ cache = <<>>
       /\ now = 0
       /\ last = NoRequest
       /\ inflight = [s \in Slots |-> Idle]
       /\ orders = <<>>
       /\ order_items = <<>>
       /\ order_seq = 0
       /\ order_item_seq = 0
       /\ reports = <<>>
       /\ report_seq = 0
       /\ commits = 0

NextRepositories ==
    \/ /\ addresses = <<>>
       /\ \E id \in ProductIds, d \in ProductUpdates :
             ProductRepositoryUpdate(id, d)
    \/ /\ addresses # <<>>
       /\ \E d \in WellFormedOrders : OrderCreate(d)
    \/ /\ addresses # <<>>
       /\ \E id \in OrderIds, d \in OrderUpdates : OrderUpdate(id, d)
    \/ /\ addresses # <<>>
       /\ \E id \in OrderIds : OrderDelete(id)

SpecRepositories == InitRepositories /\ [][NextRepositories]_vars


\* -------------------------------------------------------- concurrent orders
\* Each request has its own session: the Product objects a session has loaded
\* keep the values of the SELECT that loaded them, and the flush writes
\* stock_quantity as the value the session computed from them. Nothing locks
\* the rows and no version column guards the UPDATE. One step is the reads
\* and checks of one request, or its writes and commit.

\* Orders of the address's owner for one item.
RaceOrders == {d \in OrderCreates :
                  /\ d.user_id = 2 /\ d.delivery_address_id = 1
                  /\ Len(d.items) = 1
                  /\ d.items[1].product_id \in ProductIds}

BeginOrderCreate(s, order_data) ==
    /\ inflight[s] = Idle
    /\ order_seq + Cardinality({t \in Slots : inflight[t] # Idle}) < MaxOrders
    /\ inflight' = [inflight EXCEPT ![s] =
                       [op |-> "order_create", pc |-> "check",
                        order_data |-> order_data, products |-> <<>>,
                        total_price |-> 0, products_to_update |-> <<>>]]
    /\ UNCHANGED <<users, user_seq, products, product_seq, cache, now, last,
                   order_vars>>

\* The checks of the user and the address, then the loop that loads each
\* product and compares its stock with the quantity.
OrderCreateCheck(s) ==
    /\ inflight[s].op = "order_create" /\ inflight[s].pc = "check"
    /\ LET order_data == inflight[s].order_data
           c == OrderService_check_items(products, order_data.items, 1, 0,
                                         <<>>)
       IN  IF \/ order_data.user_id \notin DOMAIN users
              \/ order_data.delivery_address_id \notin DOMAIN addresses
              \/ addresses[order_data.delivery_address_id].user_id
                 # order_data.user_id
              \/ c.exc # ""
           THEN Finish(s)
           ELSE inflight' = [inflight EXCEPT
                                ![s].pc = "commit",
                                ![s].products = products,
                                ![s].total_price = c.total_price,
                                ![s].products_to_update
                                    = c.products_to_update]
    /\ UNCHANGED <<users, user_seq, products, product_seq, cache, now, last,
                   order_vars>>

\* order_repository.create, the decrements of the objects the session loaded,
\* and the commit that writes them.
OrderCreateCommit(s) ==
    /\ inflight[s].op = "order_create" /\ inflight[s].pc = "commit"
    /\ LET ptu == inflight[s].products_to_update
           r == OrderRepository_create(orders, order_items, order_seq,
                                       order_item_seq, inflight[s].products,
                                       inflight[s].order_data,
                                       inflight[s].total_price)
           loaded == OrderService_decrement(inflight[s].products, ptu, 1)
       IN  /\ r.exc = ""
           /\ orders' = r.orders
           /\ order_items' = r.order_items
           /\ order_seq' = r.seq
           /\ order_item_seq' = r.item_seq
           /\ products' = [id \in DOMAIN products |->
                              IF \E j \in DOMAIN ptu : ptu[j][1] = id
                              THEN loaded[id] ELSE products[id]]
           /\ commits' = commits + 1
    /\ Finish(s)
    /\ UNCHANGED <<users, user_seq, product_seq, cache, now, last, addresses,
                   reports, report_seq>>

InitOrderRace ==
    /\ InitOrders
    /\ \A id \in DOMAIN products : products[id].stock_quantity = RaceStock

NextOrderRace ==
    \/ \E s \in Slots, d \in RaceOrders : BeginOrderCreate(s, d)
    \/ \E s \in Slots : OrderCreateCheck(s)
    \/ \E s \in Slots : OrderCreateCommit(s)

SpecOrderRace == InitOrderRace /\ [][NextOrderRace]_vars


\* ------------------------------------------------- reads next to a delete
\* ProductService.get_by_id, call by call.
BeginProductGetById(s, product_id) ==
    /\ inflight[s] = Idle
    /\ inflight' = [inflight EXCEPT ![s] =
                       [op |-> "product_get_by_id", id |-> product_id,
                        pc |-> "cache_get", product |-> None]]
    /\ UNCHANGED <<users, user_seq, products, product_seq, cache, now, last,
                   order_vars>>

\* get_product_from_cache: a hit returns the rebuilt product.
ProductGetByIdCacheGet(s) ==
    /\ inflight[s].op = "product_get_by_id" /\ inflight[s].pc = "cache_get"
    /\ LET g == get_product_from_cache(cache, inflight[s].id, "ok", "ok")
       IN  /\ cache' = g.cache
           /\ IF g.exc # "" \/ g.ret # None
              THEN Finish(s)
              ELSE Goto(s, "select")
    /\ UNCHANGED <<users, user_seq, products, product_seq, now, last,
                   order_vars>>

\* await self.product_repository.get_by_id(session, product_id)
ProductGetByIdSelect(s) ==
    /\ inflight[s].op = "product_get_by_id" /\ inflight[s].pc = "select"
    /\ LET product == ProductRepository_get_by_id(products, inflight[s].id)
       IN  IF product = None
           THEN Finish(s)
           ELSE inflight' = [inflight EXCEPT ![s].pc = "cache_set",
                                             ![s].product = product]
    /\ UNCHANGED <<users, user_seq, products, product_seq, cache, now, last,
                   order_vars>>

\* set_product_to_cache with the row the request has read.
ProductGetByIdCacheSet(s) ==
    /\ inflight[s].op = "product_get_by_id" /\ inflight[s].pc = "cache_set"
    /\ cache' = set_product_to_cache(
                    cache, inflight[s].id,
                    product_dict_isoformat(
                        ProductResponse_model_dump(inflight[s].product[1])),
                    PRODUCT_TTL, now, "ok").cache
    /\ Finish(s)
    /\ UNCHANGED <<users, user_seq, products, product_seq, now, last,
                   order_vars>>

\* ProductService.delete, call by call.
BeginProductDelete(s, product_id) ==
    /\ inflight[s] = Idle
    /\ inflight' = [inflight EXCEPT ![s] =
                       [op |-> "product_delete", id |-> product_id,
                        pc |-> "commit", product |-> None]]
    /\ UNCHANGED <<users, user_seq, products, product_seq, cache, now, last,
                   order_vars>>

\* await self.product_repository.delete(...); await session.commit()
ProductDeleteCommit(s) ==
    /\ inflight[s].op = "product_delete" /\ inflight[s].pc = "commit"
    /\ LET r == ProductRepository_delete(products, inflight[s].id)
       IN  IF r.exc # ""
           THEN Finish(s) /\ UNCHANGED products
           ELSE products' = r.tbl /\ Goto(s, "invalidate")
    /\ UNCHANGED <<users, user_seq, product_seq, cache, now, last,
                   order_vars>>

\* delete_product_from_cache
ProductDeleteInvalidate(s) ==
    /\ inflight[s].op = "product_delete" /\ inflight[s].pc = "invalidate"
    /\ cache' = delete_product_from_cache(cache, inflight[s].id, "ok").cache
    /\ Finish(s)
    /\ UNCHANGED <<users, user_seq, products, product_seq, now, last,
                   order_vars>>

NextDeleteRace ==
    \/ \E s \in Slots, id \in ProductIds : BeginProductGetById(s, id)
    \/ \E s \in Slots : ProductGetByIdCacheGet(s)
    \/ \E s \in Slots : ProductGetByIdSelect(s)
    \/ \E s \in Slots : ProductGetByIdCacheSet(s)
    \/ \E s \in Slots, id \in ProductIds : BeginProductDelete(s, id)
    \/ \E s \in Slots : ProductDeleteCommit(s)
    \/ \E s \in Slots : ProductDeleteInvalidate(s)

SpecDeleteRace == InitOrders /\ [][NextDeleteRace]_vars


\* ------------------------------------------------------ concurrent updates
\* ProductService.update, call by call: the read and the validation, the
\* repository update with its commit, and the refresh of the cache with the
\* row the commit returned.
PricePatches ==
    {d \in ProductUpdates :
        d.price # None /\ d.price[1] > 0 /\ d.stock_quantity = None}

BeginProductUpdate(s, product_id, product_data) ==
    /\ inflight[s] = Idle
    /\ inflight' = [inflight EXCEPT ![s] =
                       [op |-> "product_update", id |-> product_id,
                        pc |-> "select", product_data |-> product_data,
                        product |-> None]]
    /\ UNCHANGED <<users, user_seq, products, product_seq, cache, now, last,
                   order_vars>>

\* existing_product = await self.product_repository.get_by_id(...), then the
\* validation of price and stock_quantity.
ProductUpdateSelect(s) ==
    /\ inflight[s].op = "product_update" /\ inflight[s].pc = "select"
    /\ LET product_data == inflight[s].product_data
       IN  IF \/ ProductRepository_get_by_id(products, inflight[s].id) = None
              \/ product_data.price # None /\ product_data.price[1] <= 0
              \/ /\ product_data.stock_quantity # None
                 /\ product_data.stock_quantity[1] < 0
           THEN Finish(s)
           ELSE Goto(s, "commit")
    /\ UNCHANGED <<users, user_seq, products, product_seq, cache, now, last,
                   order_vars>>

\* await self.product_repository.update(...); await session.commit()
ProductUpdateCommit(s) ==
    /\ inflight[s].op = "product_update" /\ inflight[s].pc = "commit"
    /\ LET r == ProductRepository_update(products, inflight[s].id,
                                         inflight[s].product_data)
       IN  IF r.exc # ""
           THEN Finish(s) /\ UNCHANGED products
           ELSE /\ products' = r.tbl
                /\ inflight' = [inflight EXCEPT ![s].pc = "refresh",
                                                ![s].product = r.ret]
    /\ UNCHANGED <<users, user_seq, product_seq, cache, now, last,
                   order_vars>>

\* update_product_in_cache with the row this request committed.
ProductUpdateRefresh(s) ==
    /\ inflight[s].op = "product_update" /\ inflight[s].pc = "refresh"
    /\ cache' = update_product_in_cache(
                    cache, inflight[s].id,
                    product_dict_isoformat(
                        ProductResponse_model_dump(inflight[s].product[1])),
                    PRODUCT_TTL, now, "ok").cache
    /\ Finish(s)
    /\ UNCHANGED <<users, user_seq, products, product_seq, now, last,
                   order_vars>>

NextUpdateRace ==
    \/ \E s \in Slots, id \in ProductIds, d \in PricePatches :
          BeginProductUpdate(s, id, d)
    \/ \E s \in Slots : ProductUpdateSelect(s)
    \/ \E s \in Slots : ProductUpdateCommit(s)
    \/ \E s \in Slots : ProductUpdateRefresh(s)

SpecUpdateRace == InitOrders /\ [][NextUpdateRace]_vars


\* ------------------------------------------------- orders next to the cache
\* The product controller's reads and the order controller's creates against
\* one store and one redis server, every redis command answered.
ReachableStore == [ping |-> "ok", get |-> "ok", del |-> "ok", set |-> "ok"]

NextOrderCache ==
    \/ \E id \in ProductIds : ProductGetById(id, ReachableStore)
    \/ \E d \in WellFormedOrders : OrderCreate(d)

SpecOrderCache == InitOrders /\ [][NextOrderCache]_vars


\* --------------------------------------------------- the store always answers
\* The requests of the two controllers one after the other, the ping and every
\* redis command answered.
NextReachableUser ==
    \/ \E d \in UserCreates : UserCreate(d, ReachableStore)
    \/ \E id \in UserIds : UserGetById(id, ReachableStore)
    \/ \E id \in UserIds, d \in UserUpdates : UserUpdate(id, d, ReachableStore)
    \/ \E id \in UserIds : UserDelete(id, ReachableStore)
    \/ Tick

NextReachableProduct ==
    \/ \E d \in ProductCreates : ProductCreate(d, ReachableStore)
    \/ \E id \in ProductIds : ProductGetById(id, ReachableStore)
    \/ \E id \in ProductIds, d \in ProductUpdates :
          ProductUpdate(id, d, ReachableStore)
    \/ \E id \in ProductIds : ProductDelete(id, ReachableStore)
    \/ Tick

NextReachable ==
    \/ product_seq = 0 /\ NextReachableUser
    \/ user_seq = 0 /\ NextReachableProduct

SpecReachable == Init /\ [][NextReachable]_vars


\* ------------------------------------------------ the redis commands may fail
\* The requests of the two controllers one after the other: the ping is
\* answered, each of GET, DEL and SETEX may fail.
CommandOutcomes == {o \in ReadOutcomes : o.ping = "ok"}

\* update and delete issue one command: only its outcome matters.
DelFails == {o \in CommandOutcomes : o.get = "ok" /\ o.set = "ok"}
SetFails == {o \in CommandOutcomes : o.get = "ok" /\ o.del = "ok"}

DescriptionPatches ==
    {d \in UserUpdates : d.username = None /\ d.email = None}

NextRetryUser ==
    \/ \E d \in UserCreates : UserCreate(d, ReachableStore)
    \/ \E id \in UserIds, o \in CommandOutcomes : UserGetById(id, o)
    \/ \E id \in UserIds, d \in DescriptionPatches, o \in DelFails :
          UserUpdate(id, d, o)
    \/ \E id \in UserIds, o \in DelFails : UserDelete(id, o)
    \/ Tick

NextRetryProduct ==
    \/ \E d \in ProductCreates : ProductCreate(d, ReachableStore)
    \/ \E id \in ProductIds, o \in CommandOutcomes : ProductGetById(id, o)
    \/ \E id \in ProductIds, d \in PricePatches, o \in SetFails :
          ProductUpdate(id, d, o)
    \/ \E id \in ProductIds, o \in DelFails : ProductDelete(id, o)
    \/ Tick

NextRetry ==
    \/ product_seq = 0 /\ NextRetryUser
    \/ user_seq = 0 /\ NextRetryProduct

SpecRetry == Init /\ [][NextRetry]_vars


\* ------------------------------------------- concurrent creates and updates
\* UserService.create, call by call: the two existence checks, then the
\* repository create with its commit.
BeginUserCreate(s, user_data) ==
    /\ inflight[s] = Idle
    /\ user_seq + 1 \in UserIds
    /\ inflight' = [inflight EXCEPT ![s] =
                       [op |-> "create", id |-> 0, pc |-> "check",
                        user_data |-> user_data, user |-> None]]
    /\ UNCHANGED <<users, user_seq, products, product_seq, cache, now, last,
                   order_vars>>

\* _check_email_exists and _check_username_exists
UserCreateCheck(s) ==
    /\ inflight[s].op = "create" /\ inflight[s].pc = "check"
    /\ LET user_data == inflight[s].user_data
       IN  IF \/ UserService_check_email_exists(users, user_data.email)
              \/ UserService_check_username_exists(users, user_data.username)
           THEN Finish(s)
           ELSE Goto(s, "commit")
    /\ UNCHANGED <<users, user_seq, products, product_seq, cache, now, last,
                   order_vars>>

\* await self.user_repository.create(...); await session.commit(). The flush
\* of the INSERT raises IntegrityError when a unique index refuses the row;
\* last records the outcome of the request.
UserCreateCommit(s) ==
    /\ inflight[s].op = "create" /\ inflight[s].pc = "commit"
    /\ LET r == UserRepository_create(users, user_seq, inflight[s].user_data)
       IN  IF users_unique(r.tbl)
           THEN /\ users' = r.tbl
                /\ user_seq' = user_seq + 1
                /\ last' = Served("user", "create", user_seq + 1, "ok", -2,
                                  [exc |-> "", ret |-> r.ret, repo |-> 1,
                                   calls |-> <<>>])
           ELSE /\ UNCHANGED <<users, user_seq>>
                /\ last' = Served("user", "create", 0, "ok", -2,
                                  [exc |-> "IntegrityError", ret |-> None,
                                   repo |-> 1, calls |-> <<>>])
    /\ Finish(s)
    /\ UNCHANGED <<products, product_seq, cache, now, order_vars>>

\* The claim's two requests: the race is run in the first two slots.
RaceSlots == {s \in Slots : s <= 2}

NextUserRace ==
    \/ \E s \in RaceSlots, d \in UserCreates : BeginUserCreate(s, d)
    \/ \E s \in RaceSlots : UserCreateCheck(s)
    \/ \E s \in RaceSlots : UserCreateCommit(s)
    \/ \E s \in RaceSlots, id \in UserIds, d \in UserUpdates :
          BeginUserUpdate(s, id, d)
    \/ \E s \in RaceSlots : UserUpdateSelect(s)
    \/ \E s \in RaceSlots : UserUpdateCheck(s)
    \/ \E s \in RaceSlots : UserUpdateCommit(s)
    \/ \E s \in RaceSlots : UserUpdateInvalidate(s)

SpecUserRace == Init /\ [][NextUserRace]_vars


\* ---------------------------------------------- orders and changing prices
\* Orders for pairs of units of stored products are placed while the product
\* controller changes prices.
PricedOrders ==
    {d \in OrderMessages :
        \A i \in DOMAIN d.items : /\ d.items[i].product_id \in ProductIds
                                  /\ d.items[i].quantity = 2}

NextOrderPrices ==
    \/ \E d \in PricedOrders : OrderCreate(d)
    \/ \E id \in ProductIds, d \in PricePatches :
          ProductUpdate(id, d, ReachableStore)

SpecOrderPrices == InitOrders /\ [][NextOrderPrices]_vars


\* ------------------------------------------------ app/services/report_service
\* A date is the number of its day; the instant datetime(v) falls on day v.
date_of(d) == d.v

\* The rows of a table in ascending order of id.
RECURSIVE Rows(_, _)
Rows(tbl, ids) ==
    IF ids = {} THEN <<>>
    ELSE LET k == CHOOSE x \in ids : \A y \in ids : x <= y
         IN  <<tbl[k]>> \o Rows(tbl, ids \ {k})

\* OrderRepository.get_orders_by_date: the orders whose order_date falls on
\* the date.
OrderRepository_get_orders_by_date(otbl, report_date) ==
    Rows(otbl, {k \in DOMAIN otbl :
                   date_of(otbl[k].order_date) = report_date})

\* Order.items: the items of the order.
Order_items(itbl, order_id) ==
    Rows(itbl, {i \in DOMAIN itbl : itbl[i].order_id = order_id})

\* A count of the items instead of their quantities.
sum_quantity_counts_items(items) == Len(items)

\* sum(item.quantity for item in order.items)
RECURSIVE sum_quantity(_)
sum_quantity(items) ==
    IF items = <<>> THEN 0
    ELSE Head(items).quantity + sum_quantity(Tail(items))

\* Returns [ret, reports, seq].
ReportRepository_create_report(rtbl, seq, report_at, order_id, count_product) ==
    LET report == [id |-> seq + 1, report_at |-> report_at,
                   order_id |-> order_id, count_product |-> count_product]
    IN  [ret |-> report, reports |-> (seq + 1 :> report) @@ rtbl,
         seq |-> seq + 1]

\* for order in orders: create a report and append it to reports.
\* Returns [ret, reports, seq], ret being the list of the reports made.
RECURSIVE ReportService_create_reports(_, _, _, _, _, _)
ReportService_create_reports(orders_of_date, itbl, rtbl, seq, report_date, made) ==
    IF orders_of_date = <<>>
    THEN [ret |-> made, reports |-> rtbl, seq |-> seq]
    ELSE LET order == Head(orders_of_date)
             count_product == sum_quantity(Order_items(itbl, order.id))
             r == ReportRepository_create_report(rtbl, seq, report_date,
                                                 order.id, count_product)
         IN  ReportService_create_reports(Tail(orders_of_date), itbl,
                                          r.reports, r.seq, report_date,
                                          Append(made, r.ret))

\* A generate_report that makes no report for a date that has reports.
ReportService_generate_report_once(otbl, itbl, rtbl, seq, n_commits, report_date) ==
    LET r == ReportService_create_reports(
                 IF \E k \in DOMAIN rtbl : rtbl[k].report_at = report_date
                 THEN <<>>
                 ELSE OrderRepository_get_orders_by_date(otbl, report_date),
                 itbl, rtbl, seq, report_date, <<>>)
    IN  [exc |-> "", ret |-> r.ret, repo |-> r.seq - seq, calls |-> <<>>,
         reports |-> r.reports, seq |-> r.seq, commits |-> n_commits + 1]

\* Returns [exc, ret, repo, calls, reports, seq, commits]: repo counts the
\* calls of report_repository.create_report.
ReportService_generate_report(otbl, itbl, rtbl, seq, n_commits, report_date) ==
    LET r == ReportService_create_reports(
                 OrderRepository_get_orders_by_date(otbl, report_date),
                 itbl, rtbl, seq, report_date, <<>>)
    IN  [exc |-> "", ret |-> r.ret, repo |-> r.seq - seq, calls |-> <<>>,
         reports |-> r.reports, seq |-> r.seq, commits |-> n_commits + 1]

\* The days orders were placed on, and a day without orders.
OrderDays == {0, 1}
ReportDates == OrderDays \cup {2}

\* report_service.generate_report(session, report_date); last.id is the date.
GenerateReport(report_date) ==
    /\ report_seq < MaxReports
    /\ commits < MaxCommits
    /\ LET r == ReportService_generate_report(orders, order_items, reports,
                                              report_seq, commits,
                                              report_date)
       IN  /\ reports' = r.reports
           /\ report_seq' = r.seq
           /\ commits' = r.commits
           /\ last' = Served("report", "generate_report", report_date, "",
                             -2, r)
    /\ UNCHANGED <<users, user_seq, products, product_seq, cache, now,
                   inflight, orders, order_items, order_seq, order_item_seq,
                   addresses>>

\* An order of the address's owner placed on the given day.
SeedOrder(id, day, total_price) ==
    [id |-> id, user_id |-> 2, delivery_address_id |-> 1,
     total_price |-> total_price, status |-> "pending",
     order_date |-> datetime(day), created_at |-> datetime(day),
     updated_at |-> Some(datetime(day))]

SeedItem(id, order_id, product_id, quantity, price) ==
    [id |-> id, order_id |-> order_id, product_id |-> product_id,
     quantity |-> quantity, price_at_order |-> price]

\* The store the reports are made from: no order, one order of two items, or
\* that order and a second one of one item, each placed on one of the days.
InitReports ==
    /\ users = (1 :> SeedUser(1, "alice", "a@x.io"))
               @@ (2 :> SeedUser(2, "bob", "b@x.io"))
    /\ user_seq = 2
    /\ addresses = (1 :> [id |-> 1, user_id |-> 2])
    /\ products = (1 :> SeedProduct(1, 10, 2)) @@ (2 :> SeedProduct(2, 12, 2))
    /\ product_seq = 2
    /\ \E n \in 0..2, d1 \in OrderDays, d2 \in OrderDays,
          q1 \in Quantities, q2 \in Quantities, q3 \in Quantities :
          LET o1 == SeedOrder(1, d1, 10 * q1 + 12 * q2)
              o2 == SeedOrder(2, d2, 10 * q3)
              i1 == (1 :> SeedItem(1, 1, 1, q1, 10))
                    @@ (2 :> SeedItem(2, 1, 2, q2, 12))
              i2 == (3 :> SeedItem(3, 2, 1, q3, 10))
          IN  /\ orders = IF n = 0 THEN <<>>
                          ELSE IF n = 1 THEN (1 :> o1)
                          ELSE (1 :> o1) @@ (2 :> o2)
              /\ order_items = IF n = 0 THEN <<>>
                               ELSE IF n = 1 THEN i1 ELSE i1 @@ i2
              /\ order_seq = n
              /\ order_item_seq = IF n = 0 THEN 0 ELSE IF n = 1 THEN 2 ELSE 3
    /\ commits = 0
    /\ cache = <<>>
    /\ now = 0
    /\ last = NoRequest
    /\ inflight = [s \in Slots |-> Idle]
    /\ reports = <<>>
    /\ report_seq = 0

NextReports == \E report_date \in ReportDates : GenerateReport(report_date)

SpecReports == InitReports /\ [][NextReports]_vars


\* -------------------------------------------------------------- app/scheduler
\* The database answers the task's session or raises; the broker accepts the
\* connection and the publication or raises.
TaskOutcomes ==
    [db : {"ok", "SQLAlchemyError"}, connect : {"ok", "AMQPConnectionError"},
     publish : {"ok", "AMQPError"}]

\* report_date.isoformat()
date_isoformat(d) == [type |-> "str", v |-> d]

\* reports_data and message_body (created_at is the time of the publication).
report_message(report_date, made) ==
    [report_date |-> date_isoformat(report_date),
     reports_count |-> Len(made),
     reports |-> [j \in DOMAIN made |->
                     [report_id |-> made[j].id,
                      order_id |-> made[j].order_id,
                      count_product |-> made[j].count_product,
                      report_at |-> date_isoformat(made[j].report_at)]],
     created_at |-> isoformat(datetime_now)]

\* A task that publishes the message before the reports are committed.
my_scheduled_task_publishes_first(otbl, itbl, rtbl, seq, n_commits, report_date, o) ==
    LET g == ReportService_generate_report(otbl, itbl, rtbl, seq, n_commits,
                                           report_date)
        published == <<<<"CONNECT", "ok">>, <<"PUBLISH", "ok">>,
                       <<"CLOSE", "ok">>>>
    IN  IF o.db # "ok"
        THEN [exc |-> o.db, ret |-> Some(report_message(report_date, g.ret)),
              repo |-> 0, calls |-> published, reports |-> rtbl, seq |-> seq,
              commits |-> n_commits]
        ELSE [exc |-> "", ret |-> Some(report_message(report_date, g.ret)),
              repo |-> g.repo,
              calls |-> Append(published, <<"COMMIT", "ok">>),
              reports |-> g.reports, seq |-> g.seq, commits |-> g.commits]

\* Returns [exc, ret, repo, calls, reports, seq, commits]: exc is the
\* exception the task re-raises, ret the message published to the queue
\* "report" (None when none was), repo the number of reports created, calls
\* the commit and the broker calls in the order they were made.
my_scheduled_task(otbl, itbl, rtbl, seq, n_commits, report_date, o) ==
    LET g == ReportService_generate_report(otbl, itbl, rtbl, seq, n_commits,
                                           report_date)
        committed == <<<<"COMMIT", "ok">>>>
        stored(exc, ret, calls) ==
            [exc |-> exc, ret |-> ret, repo |-> g.repo, calls |-> calls,
             reports |-> g.reports, seq |-> g.seq, commits |-> g.commits]
    IN  IF o.db # "ok"
        THEN \* generate_report raised before its commit
             [exc |-> o.db, ret |-> None, repo |-> 0, calls |-> <<>>,
              reports |-> rtbl, seq |-> seq, commits |-> n_commits]
        ELSE IF o.connect # "ok"
        THEN stored(o.connect, None,
                    Append(committed, <<"CONNECT", o.connect>>))
        ELSE IF o.publish # "ok"
        THEN \* finally: await connection.close()
             stored(o.publish, None,
                    committed \o <<<<"CONNECT", "ok">>,
                                   <<"PUBLISH", o.publish>>,
                                   <<"CLOSE", "ok">>>>)
        ELSE stored("", Some(report_message(report_date, g.ret)),
                    committed \o <<<<"CONNECT", "ok">>, <<"PUBLISH", "ok">>,
                                   <<"CLOSE", "ok">>>>)

\* One run of the task; last.id is the date, last.ret the message published.
MyScheduledTask(report_date, o) ==
    /\ report_seq < MaxReports
    /\ commits < MaxCommits
    /\ LET r == my_scheduled_task(orders, order_items, reports, report_seq,
                                  commits, report_date, o)
       IN  /\ reports' = r.reports
           /\ report_seq' = r.seq
           /\ commits' = r.commits
           /\ last' = Served("scheduler", "my_scheduled_task", report_date,
                             "", -2, r)
    /\ UNCHANGED <<users, user_seq, products, product_seq, cache, now,
                   inflight, orders, order_items, order_seq, order_item_seq,
                   addresses>>

NextScheduler ==
    \E report_date \in ReportDates, o \in TaskOutcomes :
        MyScheduledTask(report_date, o)

SpecScheduler == InitReports /\ [][NextScheduler]_vars


\* ------------------------------------------------------- damaged cache entries
\* The store is shared with whatever else writes to it; the helpers expect
\* damaged values (their except json.JSONDecodeError branch). A damaged value
\* is bytes that are no UTF-8 text, text that is no JSON, or JSON that is not
\* the dict the services wrote.

NominalTTL(key) == IF key[1] = "user" THEN USER_TTL ELSE PRODUCT_TTL

NotUtf8 == [json |-> FALSE, utf8 |-> FALSE, body |-> None]
NotJson == [json |-> FALSE, utf8 |-> TRUE, body |-> None]

\* Values that json.loads accepts: a JSON array, a dict without "id", a dict
\* whose created_at is no timestamp.
WithoutId(d) == [f \in DOMAIN d \ {"id"} |-> d[f]]
BadTimestamp(d) == [d EXCEPT !.created_at = [type |-> "str", v |-> -1]]

SampleUserDict ==
    user_dict_isoformat(UserResponse_model_dump(
        [id |-> 1, username |-> "alice", email |-> "a@x.io",
         description |-> None, created_at |-> datetime_now,
         updated_at |-> None]))

SampleProductDict ==
    product_dict_isoformat(ProductResponse_model_dump(
        [id |-> 1, name |-> "pen", description |-> None, price |-> 10,
         stock_quantity |-> 5, created_at |-> datetime_now,
         updated_at |-> None]))

UndecodableValues == {NotUtf8, NotJson}

MalformedUserValues ==
    {json_dumps([py |-> "list"]), json_dumps(WithoutId(SampleUserDict)),
     json_dumps(BadTimestamp(SampleUserDict))}

MalformedProductValues ==
    {json_dumps([py |-> "list"]), json_dumps(WithoutId(SampleProductDict)),
     json_dumps(BadTimestamp(SampleProductDict))}

\* The value under the key is replaced; an existing expiry is kept.
CorruptEntry(key, value) ==
    /\ cache' = [k \in DOMAIN cache \cup {key} |->
                    IF k = key
                    THEN [value |-> value,
                          expire_at |-> IF key \in DOMAIN cache
                                        THEN cache[key].expire_at
                                        ELSE now + NominalTTL(key)]
                    ELSE cache[k]]
    /\ last' = NoRequest
    /\ UNCHANGED <<users, user_seq, products, product_seq, now,
                 inflight, order_vars>>

NextCorruptUser ==
    \/ \E d \in UserCreates, o \in PingOutcomes : UserCreate(d, o)
    \/ \E id \in UserIds, o \in ReadOutcomes : UserGetById(id, o)
    \/ \E id \in UserIds, o \in DelOutcomes : UserDelete(id, o)
    \/ \E id \in UserIds, v \in UndecodableValues \cup MalformedUserValues :
          CorruptEntry(UserKey(id), v)

NextCorruptProduct ==
    \/ \E d \in ProductCreates, o \in PingOutcomes : ProductCreate(d, o)
    \/ \E id \in ProductIds, o \in ReadOutcomes : ProductGetById(id, o)
    \/ \E id \in ProductIds, o \in DelOutcomes : ProductDelete(id, o)
    \/ \E id \in ProductIds,
           v \in UndecodableValues \cup MalformedProductValues :
          CorruptEntry(ProductKey(id), v)

\* As in Next, a run exercises one of the two services.
NextCorrupt ==
    \/ /\ product_seq = 0
       /\ \A key \in DOMAIN cache : key[1] = "user"
       /\ NextCorruptUser
    \/ /\ user_seq = 0
       /\ \A key \in DOMAIN cache : key[1] = "product"
       /\ NextCorruptProduct

SpecCorrupt == Init /\ [][NextCorrupt]_vars


\* ------------------------------------------------------------------ properties

\* No redis command of the request failed.
NoCallFailed(req) == \A i \in DOMAIN req.calls : req.calls[i][2] = "ok"

\* A redis command of the request timed out.
TimedOut(req) == \E i \in DOMAIN req.calls : req.calls[i][2] = "TimeoutError"

\* The store is reachable (the command is answered) or unreachable (the
\* connection is refused) while a command is issued.
Availability == {"ok", "ConnectionError"}

AllOk == [get |-> "ok", del |-> "ok", set |-> "ok"]
AllDown == [get |-> "ConnectionError", del |-> "ConnectionError",
            set |-> "ConnectionError"]

\* C1: after UserService.update returned successfully, a following
\* get_by_id(id) over a reachable cache returns the committed state of the
\* user, never the value cached before the update.
C1_ReadAfterUserUpdateIsFresh ==
    (last.svc = "user" /\ last.op = "update" /\ last.exc = ""
        /\ ~TimedOut(last))
    => \A o_set \in Availability :
          LET r == UserService_get_by_id(users, cache, now, TRUE, last.id,
                       [get |-> "ok", del |-> "ok", set |-> o_set])
          IN  r.exc = "" /\ r.ret = Some(users[last.id])

\* C2: after ProductService.update returned successfully with the cache
\* reachable, the key product:{id} exists, holds the serialization of the
\* committed record and has the full nominal TTL of 600 seconds.
C2_ProductUpdateRefreshesCache ==
    (last.svc = "product" /\ last.op = "update" /\ last.ping = "ok"
        /\ last.exc = "" /\ NoCallFailed(last))
    => LET key == ProductKey(last.id)
       IN  /\ last.calls = <<<<"SETEX", "ok">>>>
           /\ key \in DOMAIN cache
           /\ json_valid(cache[key].value)
           /\ product_from_cached_data(json_loads(cache[key].value))
                  = products[last.id]
           /\ last.ret = Some(products[last.id])
           /\ redis_ttl(cache, key, now) = PRODUCT_TTL

\* A product that was cached with a decayed TTL and another price has just
\* been updated.
C2_Witness ==
    /\ last.svc = "product" /\ last.op = "update" /\ last.exc = ""
    /\ last.calls = <<<<"SETEX", "ok">>>>
    /\ last.ttl = PRODUCT_TTL - TickSeconds
    /\ products[last.id].price = 12
    /\ redis_ttl(cache, ProductKey(last.id), now) = PRODUCT_TTL

\* C3: after a successful update or delete, get_by_id on a service with the
\* cache returns what get_by_id returns without it, the repository's answer.
C3_CacheIsTransparentAfterWrite ==
    /\ (last.svc = "user" /\ last.op \in {"update", "delete"}
            /\ last.exc = "" /\ ~TimedOut(last))
       => \A o_get \in Availability, o_set \in Availability :
             LET r == UserService_get_by_id(users, cache, now, TRUE, last.id,
                          [get |-> o_get, del |-> "ok", set |-> o_set])
             IN  /\ r.exc = ""
                 /\ r.ret = UserRepository_get_by_id(users, last.id)
    /\ (last.svc = "product" /\ last.op \in {"update", "delete"}
            /\ last.exc = "" /\ ~TimedOut(last))
       => \A o_get \in Availability, o_set \in Availability :
             LET r == ProductService_get_by_id(products, cache, now, TRUE,
                          last.id,
                          [get |-> o_get, del |-> "ok", set |-> o_set])
             IN  /\ r.exc = ""
                 /\ r.ret = ProductRepository_get_by_id(products, last.id)

\* C4: when every cache operation fails with a connection error, get_by_id,
\* update and delete of both services give the outcome (entity, None or
\* ValueError, and table) that the persistence layer alone gives.
C4_ServicesFailOpen ==
    /\ \A id \in UserIds :
          /\ LET r == UserService_get_by_id(users, cache, now, TRUE, id,
                                            AllDown)
             IN  /\ r.exc = ""
                 /\ r.ret = UserRepository_get_by_id(users, id)
                 /\ r.cache = cache
          /\ \A d \in UserUpdates :
                LET r == UserService_update(users, cache, TRUE, id, d,
                                            "ConnectionError")
                    q == UserService_update(users, cache, FALSE, id, d, "ok")
                IN  /\ r.exc = q.exc /\ r.ret = q.ret /\ r.tbl = q.tbl
                    /\ r.exc \in {"", "ValueError"}
                    /\ r.exc = "" => r.ret = UserRepository_get_by_id(r.tbl, id)
          /\ LET r == UserService_delete(users, cache, TRUE, id,
                                         "ConnectionError")
                 q == UserRepository_delete(users, id)
             IN  r.exc = q.exc /\ r.tbl = q.tbl
    /\ \A id \in ProductIds :
          /\ LET r == ProductService_get_by_id(products, cache, now, TRUE, id,
                                               AllDown)
             IN  /\ r.exc = ""
                 /\ r.ret = ProductRepository_get_by_id(products, id)
                 /\ r.cache = cache
          /\ \A d \in ProductUpdates :
                LET r == ProductService_update(products, cache, now, TRUE, id,
                                               d, "ConnectionError")
                    q == ProductService_update(products, cache, now, FALSE,
                                               id, d, "ok")
                IN  /\ r.exc = q.exc /\ r.ret = q.ret /\ r.tbl = q.tbl
                    /\ r.exc \in {"", "ValueError"}
                    /\ r.exc = ""
                         => r.ret = ProductRepository_get_by_id(r.tbl, id)
          /\ LET r == ProductService_delete(products, cache, TRUE, id,
                                            "ConnectionError")
                 q == ProductRepository_delete(products, id)
             IN  r.exc = q.exc /\ r.tbl = q.tbl
    /\ (last.ping = "ok" /\ last.calls # <<>>
            /\ \A i \in DOMAIN last.calls :
                  last.calls[i][2] = "ConnectionError")
       => last.exc \in {"", "ValueError"}

\* A user that is cached was read while every cache call was refused, and the
\* read returned the stored row.
C4_Witness ==
    /\ last.svc = "user" /\ last.op = "get_by_id" /\ last.ping = "ok"
    /\ last.calls = <<<<"GET", "ConnectionError">>,
                      <<"SETEX", "ConnectionError">>>>
    /\ last.ttl > 0
    /\ last.exc = "" /\ last.repo = 1
    /\ last.ret = Some(users[last.id])

\* C5: a request served while the store is unreachable, its client obtained
\* through provide_redis_client, completes with the persistence result; the
\* lost connection never reaches the caller.
C5_ProviderFailsOpen ==
    last.ping = "ConnectionError"
    => /\ last.exc # "ConnectionError"
       /\ (last.svc = "user" /\ last.op = "get_by_id")
             => last.ret = UserRepository_get_by_id(users, last.id)
       /\ (last.svc = "product" /\ last.op = "get_by_id")
             => last.ret = ProductRepository_get_by_id(products, last.id)

\* C6: a redis command that times out is handled as a refused connection: the
\* request does not fail with the timeout, and a get_by_id returns the
\* repository's answer.
C6_TimeoutIsHandledAsUnreachable ==
    TimedOut(last)
    => /\ last.exc # "TimeoutError"
       /\ (last.svc = "user" /\ last.op = "get_by_id")
             => last.ret = UserRepository_get_by_id(users, last.id)
       /\ (last.svc = "product" /\ last.op = "get_by_id")
             => last.ret = ProductRepository_get_by_id(products, last.id)

\* C7: update and delete of both services issue their cache command only when
\* the persistence step succeeded; when it raises, no redis command is issued
\* and the store and the tables are what they were before the call.
C7_CacheStepFollowsPersistence ==
    [][(last'.op \in {"update", "delete"} /\ last'.ping = "ok")
        => /\ last'.calls # <<>> => last'.exc = ""
           /\ last'.exc # ""
                => /\ last'.exc = "ValueError"
                   /\ last'.calls = <<>>
                   /\ cache' = cache
                   /\ users' = users
                   /\ products' = products
           /\ last'.exc = ""
                => /\ Len(last'.calls) = 1
                   /\ last'.calls[1][1]
                         = (IF last'.svc = "product" /\ last'.op = "update"
                            THEN "SETEX" ELSE "DEL")]_vars

\* An update of a cached user or product was rejected and its entry is still
\* in the store.
C7_Witness ==
    /\ last.op = "update" /\ last.ping = "ok"
    /\ last.exc = "ValueError"
    /\ last.ttl > 0
    /\ last.calls = <<>>
    /\ <<last.svc, last.id>> \in DOMAIN cache

\* C8: a get_by_id that finds an entry for the id returns the value rebuilt
\* from that entry, calls no repository method and leaves the store as it is.
C8_HitSkipsPersistence ==
    [][/\ \A id \in UserIds :
            (/\ last'.svc = "user" /\ last'.op = "get_by_id"
             /\ last'.id = id /\ last'.ping = "ok"
             /\ UserKey(id) \in DOMAIN cache
             /\ json_valid(cache[UserKey(id)].value)
             /\ last'.calls # <<>>
             /\ last'.calls[1] = <<"GET", "ok">>)
            => /\ last'.exc = ""
               /\ last'.repo = 0
               /\ last'.calls = <<<<"GET", "ok">>>>
               /\ last'.ret = Some(user_from_cached_data(
                                       json_loads(cache[UserKey(id)].value)))
               /\ cache' = cache
       /\ \A id \in ProductIds :
            (/\ last'.svc = "product" /\ last'.op = "get_by_id"
             /\ last'.id = id /\ last'.ping = "ok"
             /\ ProductKey(id) \in DOMAIN cache
             /\ json_valid(cache[ProductKey(id)].value)
             /\ last'.calls # <<>>
             /\ last'.calls[1] = <<"GET", "ok">>)
            => /\ last'.exc = ""
               /\ last'.repo = 0
               /\ last'.calls = <<<<"GET", "ok">>>>
               /\ last'.ret = Some(product_from_cached_data(
                                    json_loads(cache[ProductKey(id)].value)))
               /\ cache' = cache]_vars

\* A user was read from an entry that had aged in the store: the read was
\* answered from the entry alone.
C8_Witness ==
    /\ last.svc = "user" /\ last.op = "get_by_id" /\ last.ping = "ok"
    /\ last.ttl = USER_TTL - TickSeconds
    /\ last.calls = <<<<"GET", "ok">>>>
    /\ last.repo = 0
    /\ last.ret # None
    /\ last.ret[1].created_at = datetime_now

\* C9: every entry of the store carries an expiry written with its value:
\* the services write with SETEX only, no key is without expiry, and the
\* remaining TTL of an entry is positive and at most 3600 s for user:{id} and
\* 600 s for product:{id}; just after a write it is the nominal value.
C9_EveryEntryExpires ==
    /\ \A key \in DOMAIN cache :
          /\ cache[key].expire_at # NoExpiry
          /\ redis_ttl(cache, key, now) > 0
          /\ redis_ttl(cache, key, now) <= NominalTTL(key)
    /\ \A i \in DOMAIN last.calls :
          /\ last.calls[i][1] \in {"GET", "SETEX", "DEL"}
          /\ last.calls[i] = <<"SETEX", "ok">>
                => redis_ttl(cache, <<last.svc, last.id>>, now)
                      = NominalTTL(<<last.svc, last.id>>)

\* An entry for user 1 was written by a read and has aged since.
C9_Witness ==
    /\ UserKey(1) \in DOMAIN cache
    /\ redis_ttl(cache, UserKey(1), now) = USER_TTL - TickSeconds

\* C10: after a delete of either service returned successfully with the
\* store reachable, the store has no entry for the id, and a following
\* get_by_id returns None and leaves the key absent.
C10_DeleteLeavesNoEntry ==
    /\ (last.svc = "user" /\ last.op = "delete" /\ last.ping = "ok"
            /\ last.exc = "" /\ NoCallFailed(last))
       => /\ UserKey(last.id) \notin DOMAIN cache
          /\ LET r == UserService_get_by_id(users, cache, now, TRUE, last.id,
                                            AllOk)
             IN  r.exc = "" /\ r.ret = None /\ r.cache = cache
    /\ (last.svc = "product" /\ last.op = "delete" /\ last.ping = "ok"
            /\ last.exc = "" /\ NoCallFailed(last))
       => /\ ProductKey(last.id) \notin DOMAIN cache
          /\ LET r == ProductService_get_by_id(products, cache, now, TRUE,
                                               last.id, AllOk)
             IN  r.exc = "" /\ r.ret = None /\ r.cache = cache

\* A user that was cached has just been deleted.
C10_Witness ==
    /\ last.svc = "user" /\ last.op = "delete" /\ last.exc = ""
    /\ last.ttl > 0
    /\ last.calls = <<<<"DEL", "ok">>>>
    /\ UserKey(last.id) \notin DOMAIN cache

\* C11: a get_by_id that finds, over a reachable store, an entry whose bytes
\* are not valid JSON deletes the key, returns the repository's answer, and
\* the damaged bytes are not in the store when it returns.
C11_UndecodableEntryIsHealed ==
    [][/\ \A id \in UserIds :
            (/\ last'.svc = "user" /\ last'.op = "get_by_id"
             /\ last'.id = id /\ last'.ping = "ok"
             /\ UserKey(id) \in DOMAIN cache
             /\ cache[UserKey(id)].value \in UndecodableValues
             /\ last'.calls # <<>>
             /\ NoCallFailed(last'))
            => /\ last'.exc = ""
               /\ last'.ret = UserRepository_get_by_id(users, id)
               /\ \E i \in DOMAIN last'.calls : last'.calls[i][1] = "DEL"
               /\ UserKey(id) \in DOMAIN cache'
                     => cache'[UserKey(id)].value \notin UndecodableValues
       /\ \A id \in ProductIds :
            (/\ last'.svc = "product" /\ last'.op = "get_by_id"
             /\ last'.id = id /\ last'.ping = "ok"
             /\ ProductKey(id) \in DOMAIN cache
             /\ cache[ProductKey(id)].value \in UndecodableValues
             /\ last'.calls # <<>>
             /\ NoCallFailed(last'))
            => /\ last'.exc = ""
               /\ last'.ret = ProductRepository_get_by_id(products, id)
               /\ \E i \in DOMAIN last'.calls : last'.calls[i][1] = "DEL"
               /\ ProductKey(id) \in DOMAIN cache'
                     => cache'[ProductKey(id)].value \notin UndecodableValues
      ]_vars

\* C12: a get_by_id that finds an entry that decodes as JSON but cannot be
\* rebuilt into an entity (not an object, a required field missing, a
\* timestamp that is not ISO-8601) does not fail: it deletes the key and
\* returns the repository's answer.
C12_MalformedEntryIsHealed ==
    [][/\ \A id \in UserIds :
            (/\ last'.svc = "user" /\ last'.op = "get_by_id"
             /\ last'.id = id /\ last'.ping = "ok"
             /\ UserKey(id) \in DOMAIN cache
             /\ cache[UserKey(id)].value \in MalformedUserValues
             /\ last'.calls # <<>>
             /\ NoCallFailed(last'))
            => /\ last'.exc = ""
               /\ last'.ret = UserRepository_get_by_id(users, id)
               /\ UserKey(id) \in DOMAIN cache'
                     => cache'[UserKey(id)].value \notin MalformedUserValues
       /\ \A id \in ProductIds :
            (/\ last'.svc = "product" /\ last'.op = "get_by_id"
             /\ last'.id = id /\ last'.ping = "ok"
             /\ ProductKey(id) \in DOMAIN cache
             /\ cache[ProductKey(id)].value \in MalformedProductValues
             /\ last'.calls # <<>>
             /\ NoCallFailed(last'))
            => /\ last'.exc = ""
               /\ last'.ret = ProductRepository_get_by_id(products, id)
               /\ ProductKey(id) \in DOMAIN cache'
                     => cache'[ProductKey(id)].value
                           \notin MalformedProductValues
      ]_vars

\* C13: a get_by_id that misses (no entry, or the GET refused) returns the
\* repository's answer and leaves the tables alone whatever happens to the
\* write of the entry: a refused or timed-out SETEX is swallowed, and a dict
\* json.dumps cannot encode makes the helper skip the write without raising.
C13_MissReturnsRepositoryResult ==
    [][/\ \A id \in UserIds :
            (/\ last'.svc = "user" /\ last'.op = "get_by_id"
             /\ last'.id = id /\ last'.ping = "ok"
             /\ last'.calls # <<>>
             /\ \/ last'.calls[1] = <<"GET", "ConnectionError">>
                \/ /\ last'.calls[1] = <<"GET", "ok">>
                   /\ UserKey(id) \notin DOMAIN cache)
            => /\ last'.exc = ""
               /\ last'.repo = 1
               /\ last'.ret = UserRepository_get_by_id(users, id)
               /\ users' = users
       /\ \A id \in ProductIds :
            (/\ last'.svc = "product" /\ last'.op = "get_by_id"
             /\ last'.id = id /\ last'.ping = "ok"
             /\ last'.calls # <<>>
             /\ \/ last'.calls[1] = <<"GET", "ConnectionError">>
                \/ /\ last'.calls[1] = <<"GET", "ok">>
                   /\ ProductKey(id) \notin DOMAIN cache)
            => /\ last'.exc = ""
               /\ last'.repo = 1
               /\ last'.ret = ProductRepository_get_by_id(products, id)
               /\ products' = products
       /\ \A id \in DOMAIN users :
            LET w == set_user_to_cache(cache, id,
                         UserResponse_model_dump(users[id]), USER_TTL, now,
                         "ok")
            IN  w.exc = "" /\ w.cache = cache
       /\ \A id \in DOMAIN products :
            LET w == set_product_to_cache(cache, id,
                         ProductResponse_model_dump(products[id]),
                         PRODUCT_TTL, now, "ok")
            IN  w.exc = "" /\ w.cache = cache
      ]_vars

\* A stored user was read on a miss while the SETEX timed out, and the read
\* returned the row.
C13_Witness ==
    /\ last.svc = "user" /\ last.op = "get_by_id" /\ last.ping = "ok"
    /\ last.calls = <<<<"GET", "ok">>, <<"SETEX", "TimeoutError">>>>
    /\ last.exc = ""
    /\ last.ret = Some(users[last.id])
    /\ UserKey(last.id) \notin DOMAIN cache

\* C14: a get_by_id for an id that is in neither the store nor the table
\* returns None and writes nothing to the store; a get_by_id for an id that is
\* not in the store but in the table, the store reachable, leaves an entry
\* that equals the stored row.
C14_MissPopulatesOnlyWhenFound ==
    [][/\ \A id \in UserIds :
            (/\ last'.svc = "user" /\ last'.op = "get_by_id"
             /\ last'.id = id /\ last'.ping = "ok"
             /\ UserKey(id) \notin DOMAIN cache)
            => /\ id \notin DOMAIN users
                  => /\ last'.exc = "" => last'.ret = None
                     /\ cache' = cache
                     /\ \A i \in DOMAIN last'.calls :
                           last'.calls[i][1] = "GET"
               /\ (id \in DOMAIN users /\ NoCallFailed(last'))
                  => /\ last'.ret = Some(users[id])
                     /\ UserKey(id) \in DOMAIN cache'
                     /\ json_valid(cache'[UserKey(id)].value)
                     /\ user_from_cached_data(
                            json_loads(cache'[UserKey(id)].value)) = users[id]
       /\ \A id \in ProductIds :
            (/\ last'.svc = "product" /\ last'.op = "get_by_id"
             /\ last'.id = id /\ last'.ping = "ok"
             /\ ProductKey(id) \notin DOMAIN cache)
            => /\ id \notin DOMAIN products
                  => /\ last'.exc = "" => last'.ret = None
                     /\ cache' = cache
                     /\ \A i \in DOMAIN last'.calls :
                           last'.calls[i][1] = "GET"
               /\ (id \in DOMAIN products /\ NoCallFailed(last'))
                  => /\ last'.ret = Some(products[id])
                     /\ ProductKey(id) \in DOMAIN cache'
                     /\ json_valid(cache'[ProductKey(id)].value)
                     /\ product_from_cached_data(
                            json_loads(cache'[ProductKey(id)].value))
                           = products[id]
      ]_vars

\* A user that was created and deleted again was looked up: the read asked
\* the store and the repository, returned None and left the key absent.
C14_Witness ==
    /\ last.svc = "user" /\ last.op = "get_by_id" /\ last.ping = "ok"
    /\ last.calls = <<<<"GET", "ok">>>>
    /\ last.repo = 1 /\ last.exc = "" /\ last.ret = None
    /\ last.id <= user_seq
    /\ UserKey(last.id) \notin DOMAIN cache

\* C15: after a successful update of a product, through the HTTP handler or
\* through the product_update message handler, with no cache command failed,
\* an entry under product:{id} equals the stored row.
C15_EntryFollowsEveryProductUpdate ==
    (/\ last.svc = "product"
     /\ last.op \in {"update", "product_update"}
     /\ last.exc = ""
     /\ NoCallFailed(last)
     /\ ProductKey(last.id) \in DOMAIN cache)
    => /\ json_valid(cache[ProductKey(last.id)].value)
       /\ product_from_cached_data(
              json_loads(cache[ProductKey(last.id)].value))
             = products[last.id]

\* C16: with requests interleaved at their cache and repository calls, once
\* no request on an id is in flight, an entry under user:{id} equals the
\* stored row: a stale value is seen only while the writer is between its
\* commit and its cache step.
C16_StaleOnlyWhileWriterInFlight ==
    \A id \in UserIds :
        (/\ \A s \in Slots : inflight[s] = Idle \/ inflight[s].id # id
         /\ UserKey(id) \in DOMAIN cache)
        => /\ id \in DOMAIN users
           /\ user_from_cached_data(json_loads(cache[UserKey(id)].value))
                 = users[id]

\* C17: an entry is created only by the miss path of get_by_id or by
\* ProductService.update. The create methods issue no redis command and leave
\* the store alone; UserService.update, UserService.delete and
\* ProductService.delete issue DEL only and write no value.
C17_OnlyReadMissAndProductUpdateWrite ==
    [][/\ last'.op = "create"
            => last'.calls = <<>> /\ cache' = cache
       /\ (\/ last'.svc = "user" /\ last'.op \in {"update", "delete"}
           \/ last'.svc = "product" /\ last'.op = "delete")
            => /\ \A i \in DOMAIN last'.calls : last'.calls[i][1] = "DEL"
               /\ \A key \in DOMAIN cache' :
                     key \in DOMAIN cache /\ cache'[key] = cache[key]
       /\ \A key \in DOMAIN cache' :
            (key \notin DOMAIN cache \/ cache'[key] # cache[key])
            => /\ key = <<last'.svc, last'.id>>
               /\ \/ last'.op = "get_by_id" /\ last'.repo = 1
                  \/ last'.svc = "product" /\ last'.op = "update"
      ]_vars

\* A row was created while another row was cached: the store still holds that
\* entry only.
C17_Witness ==
    /\ last.op = "create" /\ last.ping = "ok" /\ last.exc = ""
    /\ last.calls = <<>>
    /\ DOMAIN cache # {}
    /\ <<last.svc, last.id>> \notin DOMAIN cache

C19_NoClientIsRepositoryOnly ==
    /\ \A id \in UserIds, o \in CallOutcomes :
          LET a == UserService_get_by_id(users, cache, now,
                                         user_service.redis_client, id, o)
              b == lab2_UserService_get_by_id(users, id)
          IN  /\ a.calls = <<>> /\ a.cache = cache
              /\ a.repo = 1 /\ a.exc = b.exc /\ a.ret = b.ret
              /\ a.ret = UserRepository_get_by_id(users, id)
    /\ \A id \in UserIds, d \in UserUpdates, o \in Outcomes :
          LET a == UserService_update(users, cache, user_service.redis_client,
                                      id, d, o)
              b == lab2_UserService_update(users, id, d)
          IN  /\ a.calls = <<>> /\ a.cache = cache
              /\ a.exc = b.exc /\ a.ret = b.ret /\ a.tbl = b.tbl
              /\ a.repo = b.repo
    /\ \A id \in UserIds, o \in Outcomes :
          LET a == UserService_delete(users, cache, user_service.redis_client,
                                      id, o)
              b == lab2_UserService_delete(users, id)
          IN  /\ a.calls = <<>> /\ a.cache = cache
              /\ a.exc = b.exc /\ a.ret = b.ret /\ a.tbl = b.tbl
              /\ a.repo = b.repo
    /\ (last.svc = "user" /\ last.ping = "" /\ last.op = "get_by_id")
       => /\ last.calls = <<>> /\ last.exc = "" /\ last.repo = 1
          /\ last.ret = UserRepository_get_by_id(users, last.id)
          /\ redis_ttl(cache, UserKey(last.id), now) = last.ttl
    /\ (last.svc = "user" /\ last.ping = "" /\ last.op \in {"update", "delete"})
       => /\ last.calls = <<>>
          /\ redis_ttl(cache, UserKey(last.id), now) = last.ttl

\* A service without a client read a user whose key holds a different entity.
C19_Witness ==
    /\ last.svc = "user" /\ last.op = "get_by_id" /\ last.ping = ""
    /\ last.ttl > 0 /\ last.calls = <<>> /\ last.repo = 1
    /\ last.ret # None
    /\ UserKey(last.id) \in DOMAIN cache
    /\ cache[UserKey(last.id)].value.body.username # last.ret[1].username


\* The cases in which the order must be refused: the user is missing, the
\* address is missing or another user's, an item's product is missing, or an
\* item asks for more than the product's stock_quantity.
MustBeRefused(order_data) ==
    \/ order_data.user_id \notin DOMAIN users
    \/ order_data.delivery_address_id \notin DOMAIN addresses
    \/ /\ order_data.delivery_address_id \in DOMAIN addresses
       /\ addresses[order_data.delivery_address_id].user_id
          # order_data.user_id
    \/ \E i \in DOMAIN order_data.items :
          order_data.items[i].product_id \notin DOMAIN products
    \/ \E i \in DOMAIN order_data.items :
          /\ order_data.items[i].product_id \in DOMAIN products
          /\ order_data.items[i].quantity
             > products[order_data.items[i].product_id].stock_quantity

\* C20: in every state and for every order that names a missing user, a
\* missing or foreign address, a missing product or more units than a product
\* has in stock, OrderService.create raises ValueError without calling
\* order_repository.create, creates no order and no order item, leaves every
\* product's stock_quantity as it is and does not commit; hence the commits
\* made are exactly those of the orders created.
C20_RefusedOrderChangesNothing ==
    /\ \A order_data \in OrderCreates :
          MustBeRefused(order_data) =>
             LET r == OrderService_create(users, addresses, products, orders,
                                          order_items, order_seq,
                                          order_item_seq, commits, order_data)
             IN  /\ r.exc = "ValueError" /\ r.ret = None /\ r.repo = 0
                 /\ r.orders = orders /\ r.order_items = order_items
                 /\ r.products = products /\ r.commits = commits
    /\ (last.svc = "order" /\ last.op = "create" /\ last.exc # "")
       => /\ last.exc = "ValueError" /\ last.ret = None /\ last.repo = 0
    /\ commits = order_seq
    /\ DOMAIN orders = 1..order_seq

\* An order was refused after an earlier one had taken a product's last unit.
C20_Witness ==
    /\ last.svc = "order" /\ last.op = "create" /\ last.exc = "ValueError"
    /\ order_seq > 0 /\ commits = order_seq
    /\ \E id \in DOMAIN products :
          /\ products[id].stock_quantity = 0
          /\ products[id].updated_at # None


\* The price of the items at the products' current prices, and the units of
\* one product the items ask for.
RECURSIVE ItemsPrice(_, _)
ItemsPrice(ptbl, items) ==
    IF items = <<>> THEN 0
    ELSE ptbl[Head(items).product_id].price * Head(items).quantity
         + ItemsPrice(ptbl, Tail(items))

RECURSIVE UnitsOrdered(_, _)
UnitsOrdered(items, product_id) ==
    IF items = <<>> THEN 0
    ELSE (IF Head(items).product_id = product_id
          THEN Head(items).quantity ELSE 0)
         + UnitsOrdered(Tail(items), product_id)

\* The items of an order, as rows of order_items.
ItemsOf(order_id) ==
    {i \in DOMAIN order_items : order_items[i].order_id = order_id}

\* C21: whenever OrderService.create succeeds, the total_price of the order it
\* hands to the repository is the sum over the items of product price times
\* quantity, every product's stock_quantity goes down by exactly the units the
\* order asks of it (other products keep theirs), and the order, its items and
\* the decrements come with one commit.
C21_TotalAndStockFollowItems ==
    /\ \A order_data \in OrderCreates :
          LET r == OrderService_create(users, addresses, products, orders,
                                       order_items, order_seq,
                                       order_item_seq, commits, order_data)
          IN  r.exc = "" =>
                 /\ r.repo = 1 /\ r.ret # None
                 /\ r.ret[1].total_price
                    = ItemsPrice(products, order_data.items)
                 /\ r.seq = order_seq + 1
                 /\ r.orders[r.seq] = r.ret[1]
                 /\ r.item_seq = order_item_seq + Len(order_data.items)
                 /\ DOMAIN r.products = DOMAIN products
                 /\ \A id \in DOMAIN products :
                       r.products[id].stock_quantity
                       = products[id].stock_quantity
                         - UnitsOrdered(order_data.items, id)
                 /\ r.commits = commits + 1
    /\ (last.svc = "order" /\ last.op = "create" /\ last.exc = "")
       => /\ last.ret # None /\ last.id = order_seq
          /\ orders[last.id] = last.ret[1]
          /\ ItemsOf(last.id) # {}

\* An order of two different products was accepted: 10 + 12.
C21_Witness ==
    /\ last.svc = "order" /\ last.op = "create" /\ last.exc = ""
    /\ last.ret # None /\ last.ret[1].total_price = 22
    /\ Cardinality(ItemsOf(last.id)) = 2
    /\ \A id \in DOMAIN products : products[id].updated_at # None


\* An item names a product that does not exist or that has nothing in stock.
Unavailable(order_data) ==
    \E i \in DOMAIN order_data.items :
       \/ order_data.items[i].product_id \notin DOMAIN products
       \/ products[order_data.items[i].product_id].stock_quantity = 0

\* C22: for every message, subscribe_order_create calls OrderService.create
\* exactly when every item's product exists with a stock_quantity other than
\* 0; when an item's product is missing or has stock_quantity 0 it creates no
\* order and no order item, changes no stock and commits nothing. For a
\* message handled by the last step, last.repo is the number of calls of
\* OrderService.create.
C22_HandlerRejectsUnavailable ==
    /\ \A order_data \in OrderCreates :
          LET r == subscribe_order_create(users, addresses, products, cache,
                                          now, orders, order_items, order_seq,
                                          order_item_seq, commits, order_data)
          IN  /\ r.service_calls = (IF Unavailable(order_data) THEN 0 ELSE 1)
              /\ Unavailable(order_data) =>
                    /\ r.ret = None /\ r.orders = orders
                    /\ r.order_items = order_items /\ r.products = products
                    /\ r.commits = commits
    /\ (last.svc = "order" /\ last.op = "order_create" /\ last.repo = 0)
       => last.ret = None /\ last.exc = ""
    /\ commits = order_seq

\* A message was turned away without a call of the service after an earlier
\* order had taken a product's last unit.
C22_Witness ==
    /\ last.svc = "order" /\ last.op = "order_create" /\ last.repo = 0
    /\ last.ret = None /\ order_seq > 0
    /\ \E id \in DOMAIN products :
          /\ products[id].stock_quantity = 0
          /\ products[id].updated_at # None


\* Another user already has the email or the username of the new user.
CreateMustBeRefused(user_data) ==
    \E k \in DOMAIN users :
       \/ users[k].email = user_data.email
       \/ users[k].username = user_data.username

\* The user does not exist, or the patch sets email or username to a value
\* held by another user.
UpdateMustBeRefused(user_id, user_data) ==
    \/ user_id \notin DOMAIN users
    \/ /\ user_data.email # None
       /\ \E k \in DOMAIN users \ {user_id} :
             users[k].email = user_data.email[1]
    \/ /\ user_data.username # None
       /\ \E k \in DOMAIN users \ {user_id} :
             users[k].username = user_data.username[1]

\* What both readings of C23 share: the refused call raises ValueError and
\* leaves the table and the cache as they are, and a refused create makes no
\* repository call. n is the number of repository calls of a refused update.
RefusalChangesNothing(n) ==
    /\ \A user_data \in UserCreates :
          CreateMustBeRefused(user_data) =>
             LET r == UserService_create(users, user_seq, user_data)
             IN  /\ r.exc = "ValueError" /\ r.ret = None /\ r.repo = 0
                 /\ r.tbl = users /\ r.seq = user_seq
    /\ \A user_id \in UserIds, user_data \in UserUpdates, o \in Outcomes :
          UpdateMustBeRefused(user_id, user_data) =>
             LET r == UserService_update(users, cache, TRUE, user_id,
                                         user_data, o)
             IN  /\ r.exc = "ValueError" /\ r.ret = None /\ r.repo = n
                 /\ r.tbl = users /\ r.cache = cache /\ r.calls = <<>>
    /\ (last.svc = "user" /\ last.op = "create" /\ last.exc = "ValueError")
       => last.repo = 0
    /\ (last.svc = "user" /\ last.op = "update" /\ last.exc = "ValueError")
       => /\ last.repo = n /\ last.calls = <<>>
          /\ redis_ttl(cache, UserKey(last.id), now) = last.ttl

\* C23 as stated: a refused create and a refused update raise ValueError,
\* never call the repository and leave persistence and the cache unchanged.
C23_RefusalNeverCallsRepository == RefusalChangesNothing(0)

\* C23, amended: a refused create raises ValueError without a repository
\* call; a refused update raises ValueError after exactly one repository
\* call, the get_by_id that looks the user up, and never reaches the
\* repository's update; in both cases the table and the cache are unchanged
\* and no redis command is issued.
C23_RefusalNeverWrites == RefusalChangesNothing(1)

\* An update was refused while the user's entry was cached; the entry stays.
C23_Witness ==
    /\ last.svc = "user" /\ last.op = "update" /\ last.exc = "ValueError"
    /\ last.repo = 1 /\ last.ttl > 0
    /\ last.id \in DOMAIN users
    /\ UserKey(last.id) \in DOMAIN cache


\* The given price is not greater than 0 or the given stock_quantity is
\* negative.
PatchIsInvalid(product_data) ==
    \/ product_data.price # None /\ product_data.price[1] <= 0
    \/ product_data.stock_quantity # None
       /\ product_data.stock_quantity[1] < 0

\* What both readings of C24 share: invalid data is refused with ValueError
\* and nothing is stored or cached, a refused create makes no repository
\* call, and every stored product has price > 0 and stock_quantity >= 0.
\* n is the number of repository calls of a refused update.
InvalidProductIsRefused(n) ==
    /\ \A product_data \in ProductCreates :
          (product_data.price <= 0 \/ product_data.stock_quantity < 0) =>
             LET r == ProductService_create(products, product_seq,
                                            product_data)
             IN  /\ r.exc = "ValueError" /\ r.ret = None /\ r.repo = 0
                 /\ r.tbl = products /\ r.seq = product_seq
    /\ \A product_id \in ProductIds, product_data \in ProductUpdates,
          o \in Outcomes :
          PatchIsInvalid(product_data) =>
             LET r == ProductService_update(products, cache, now, TRUE,
                                            product_id, product_data, o)
             IN  /\ r.exc = "ValueError" /\ r.ret = None /\ r.repo = n
                 /\ r.tbl = products /\ r.cache = cache /\ r.calls = <<>>
    /\ \A id \in DOMAIN products :
          products[id].price > 0 /\ products[id].stock_quantity >= 0

\* C24 as stated: ProductService.create and ProductService.update raise
\* ValueError and never call the repository when the price is not greater
\* than 0 or the stock_quantity is negative, so no stored product has
\* price <= 0 or stock_quantity < 0.
C24_InvalidNeverCallsRepository == InvalidProductIsRefused(0)

\* C24, amended: on such data create raises ValueError without a repository
\* call and update raises ValueError after exactly one repository call, the
\* get_by_id that looks the product up, without reaching the repository's
\* update; the table and the cache are unchanged, and no sequence of create
\* and update calls stores a product with price <= 0 or stock_quantity < 0.
C24_InvalidNeverStored == InvalidProductIsRefused(1)

\* An update of an existing, cached product was refused; its row is valid.
C24_Witness ==
    /\ last.svc = "product" /\ last.op = "update" /\ last.exc = "ValueError"
    /\ last.repo = 1 /\ last.id \in DOMAIN products
    /\ ProductKey(last.id) \in DOMAIN cache
    /\ products[last.id].price > 0


\* The value a field has after the patch: the patch's when the patch sets the
\* field to a non-null value, the row's otherwise. A description is stored as
\* the Optional it is.
PatchedValue(row, patch, f) ==
    IF f \notin DOMAIN patch THEN row[f]
    ELSE IF patch[f] = None THEN row[f]
    ELSE IF f = "description" THEN patch[f]
    ELSE patch[f][1]

\* An update of the row id of tbl by patch gave new_tbl: the other rows are
\* as they were and so is every field of the row outside exempt that the
\* patch does not set; updated_at is as it was or the time of the update.
FrameOf(tbl, new_tbl, id, patch, exempt) ==
    /\ DOMAIN new_tbl = DOMAIN tbl
    /\ \A k \in DOMAIN tbl \ {id} : new_tbl[k] = tbl[k]
    /\ DOMAIN new_tbl[id] = DOMAIN tbl[id]
    /\ \A f \in DOMAIN tbl[id] \ exempt :
          new_tbl[id][f] = PatchedValue(tbl[id], patch, f)
    /\ new_tbl[id].updated_at \in {tbl[id].updated_at, Some(datetime_now)}

\* The frame of the three repositories' update, in the current state and for
\* every id and patch; an update of a missing id raises ValueError and
\* changes nothing; an order update leaves order_items as it is.
UpdateFrame(exempt) ==
    /\ \A id \in ProductIds, d \in ProductUpdates :
          LET r == ProductRepository_update(products, id, d)
          IN  IF id \notin DOMAIN products
              THEN r.exc = "ValueError" /\ r.tbl = products
              ELSE /\ r.exc = "" /\ r.ret = Some(r.tbl[id])
                   /\ FrameOf(products, r.tbl, id, d, exempt)
    /\ \A id \in UserIds, d \in UserUpdates :
          LET r == UserRepository_update(users, id, d)
          IN  IF id \notin DOMAIN users
              THEN r.exc = "ValueError" /\ r.tbl = users
              ELSE /\ r.exc = "" /\ r.ret = Some(r.tbl[id])
                   /\ FrameOf(users, r.tbl, id, d, exempt)
    /\ \A id \in OrderIds, d \in OrderUpdates :
          LET r == OrderRepository_update(orders, order_items, id, d)
          IN  /\ r.order_items = order_items
              /\ IF id \notin DOMAIN orders
                 THEN r.exc = "ValueError" /\ r.orders = orders
                 ELSE /\ r.exc = "" /\ r.ret = Some(r.orders[id])
                      /\ FrameOf(orders, r.orders, id, d, exempt)
    /\ (last.svc = "order" /\ last.op = "update" /\ last.exc = "")
       => /\ last.id \in DOMAIN orders /\ last.ret = Some(orders[last.id])
          /\ ItemsOf(last.id) # {}

\* C25 as stated: a repository update changes only the fields the patch sets
\* to a non-null value and leaves every other field of the record and every
\* other record unchanged; an order update changes the status only and
\* leaves the order's items unchanged.
C25_UpdateChangesOnlyPatchedFields == UpdateFrame({})

\* C25, amended: a repository update changes the fields the patch sets to a
\* non-null value and, when that changed the row, its updated_at, which
\* becomes the time of the update; every other field of the record and every
\* other record are unchanged; an order update changes the status (and
\* updated_at) only and leaves the order's items unchanged.
C25_UpdateChangesPatchedFieldsAndUpdatedAt == UpdateFrame({"updated_at"})

\* An order with two items was set to "completed"; its items are still there
\* and another order exists.
C25_Witness ==
    /\ last.svc = "order" /\ last.op = "update" /\ last.exc = ""
    /\ last.id \in DOMAIN orders
    /\ orders[last.id].status = "completed"
    /\ Cardinality(ItemsOf(last.id)) = 2
    /\ \E k \in DOMAIN orders : k # last.id /\ orders[k].status = "pending"


\* C26: every order item refers to an order that exists; OrderRepository.delete
\* of an existing order removes the order and exactly the items that referred
\* to it, and of an id that names no order raises ValueError and changes
\* neither table.
C26_DeleteCascadesToItems ==
    /\ \A i \in DOMAIN order_items :
          order_items[i].order_id \in DOMAIN orders
    /\ \A id \in OrderIds :
          LET r == OrderRepository_delete(orders, order_items, id)
          IN  IF id \notin DOMAIN orders
              THEN /\ r.exc = "ValueError"
                   /\ r.orders = orders /\ r.order_items = order_items
              ELSE /\ r.exc = ""
                   /\ DOMAIN r.orders = DOMAIN orders \ {id}
                   /\ \A k \in DOMAIN r.orders : r.orders[k] = orders[k]
                   /\ DOMAIN r.order_items = DOMAIN order_items \ ItemsOf(id)
                   /\ \A i \in DOMAIN r.order_items :
                         r.order_items[i] = order_items[i]
    /\ (last.svc = "order" /\ last.op = "delete" /\ last.exc = "")
       => last.id \notin DOMAIN orders /\ ItemsOf(last.id) = {}
    /\ (last.svc = "order" /\ last.op = "delete" /\ last.exc # "")
       => last.exc = "ValueError" /\ last.id \notin DOMAIN orders

\* One of two orders was deleted: its items went with it, the other order
\* keeps its own.
C26_Witness ==
    /\ last.svc = "order" /\ last.op = "delete" /\ last.exc = ""
    /\ last.id \notin DOMAIN orders
    /\ order_seq = 2
    /\ \E k \in DOMAIN orders : ItemsOf(k) # {}
    /\ Cardinality(DOMAIN order_items) < order_item_seq


\* The orders of a date, and the units an order's items add up to.
OrdersOf(report_date) ==
    {k \in DOMAIN orders : date_of(orders[k].order_date) = report_date}

RECURSIVE UnitsOfItems(_)
UnitsOfItems(item_ids) ==
    IF item_ids = {} THEN 0
    ELSE LET i == CHOOSE x \in item_ids : TRUE
         IN  order_items[i].quantity + UnitsOfItems(item_ids \ {i})

C28_StockNeverNegative ==
    \A p \in DOMAIN products : products[p].stock_quantity >= 0


\* The units of a product the stored orders have sold.
UnitsSold(product_id) ==
    UnitsOfItems({i \in DOMAIN order_items :
                     order_items[i].product_id = product_id})

\* C29: once the concurrent creates have finished, the units of a product
\* sold by the orders that succeeded do not exceed the stock there was before
\* them, and the stock left is that stock minus the units sold.
C29_ConcurrentOrdersConserveStock ==
    (\A s \in Slots : inflight[s] = Idle)
    => \A p \in DOMAIN products :
          /\ UnitsSold(p) <= RaceStock
          /\ products[p].stock_quantity = RaceStock - UnitsSold(p)


\* C30: with a get_by_id that missed the cache interleaved with a delete of
\* the same id, once no request on the id is in flight the cache holds no
\* entry for an id that is not stored, and a get_by_id of that id returns
\* not-found.
C30_NoEntryForDeletedId ==
    \A id \in ProductIds :
        (/\ \A s \in Slots : inflight[s] = Idle \/ inflight[s].id # id
         /\ id \notin DOMAIN products)
        => /\ ProductKey(id) \notin DOMAIN cache
           /\ ProductService_get_by_id(products, cache, now, TRUE, id,
                                       AllOk).ret = None


\* C31: with two updates of one product interleaved at their repository and
\* cache calls, once no request on the id is in flight the entry under
\* product:{id} equals the row committed last, in whatever order the two
\* refreshes were applied.
C31_EntryEqualsLastCommit ==
    \A id \in ProductIds :
        (/\ \A s \in Slots : inflight[s] = Idle \/ inflight[s].id # id
         /\ ProductKey(id) \in DOMAIN cache)
        => /\ id \in DOMAIN products
           /\ product_from_cached_data(
                  json_loads(cache[ProductKey(id)].value)) = products[id]


\* C32: after OrderService.create committed the decrement of a product's
\* stock, ProductService.get_by_id over a reachable cache returns that
\* product as a service without a cache does, with the decremented
\* stock_quantity, an entry for the product being cached or not.
C32_ReadAfterOrderIsFresh ==
    (last.svc = "order" /\ last.op = "create" /\ last.exc = "")
    => \A id \in ProductIds :
          ProductService_get_by_id(products, cache, now, TRUE, id, AllOk).ret
          = ProductService_get_by_id(products, cache, now, FALSE, id,
                                     AllOk).ret


\* C33: with the requests served one after the other, the store answering
\* every command and every write made through the two services, get_by_id
\* returns for every id what the repository alone returns, and every entry
\* present equals the stored row of its id.
C33_SequentialCacheIsTransparent ==
    /\ \A id \in UserIds :
          /\ UserService_get_by_id(users, cache, now, TRUE, id, AllOk).exc = ""
          /\ UserService_get_by_id(users, cache, now, TRUE, id, AllOk).ret
             = UserRepository_get_by_id(users, id)
          /\ UserKey(id) \in DOMAIN cache
             => /\ id \in DOMAIN users
                /\ user_from_cached_data(
                       json_loads(cache[UserKey(id)].value)) = users[id]
    /\ \A id \in ProductIds :
          /\ ProductService_get_by_id(products, cache, now, TRUE, id,
                                      AllOk).exc = ""
          /\ ProductService_get_by_id(products, cache, now, TRUE, id,
                                      AllOk).ret
             = ProductRepository_get_by_id(products, id)
          /\ ProductKey(id) \in DOMAIN cache
             => /\ id \in DOMAIN products
                /\ product_from_cached_data(
                       json_loads(cache[ProductKey(id)].value)) = products[id]
    /\ \A key \in DOMAIN cache :
          \/ key[1] = "user" /\ key[2] \in UserIds
          \/ key[1] = "product" /\ key[2] \in ProductIds
    /\ (last.op = "get_by_id" /\ last.svc = "user")
       => last.exc = "" /\ last.ret = UserRepository_get_by_id(users, last.id)
    /\ (last.op = "get_by_id" /\ last.svc = "product")
       => /\ last.exc = ""
          /\ last.ret = ProductRepository_get_by_id(products, last.id)

\* A read was answered from the cache, without the repository, for a product
\* that had been updated since it was created.
C33_Witness ==
    /\ last.svc = "product" /\ last.op = "get_by_id" /\ last.exc = ""
    /\ last.repo = 0 /\ last.ttl > 0
    /\ last.id \in DOMAIN products
    /\ products[last.id].updated_at # None
    /\ last.ret = Some(products[last.id])


\* C34: a get_by_id answered from the cache leaves the store as it was, value
\* and expiry of every key, and so would a get_by_id of any id that has an
\* entry; the expiry of a key changes only with a SETEX of that key, so an
\* entry that is read and never rewritten keeps the expiry it was written
\* with, 3600 s (user) or 600 s (product) after the write.
C34_HitLeavesCacheUnchanged ==
    [][/\ (/\ last'.op = "get_by_id" /\ last'.exc = ""
           /\ last'.repo = 0 /\ last'.ret # None)
          => /\ cache' = cache
             /\ last'.calls = <<<<"GET", "ok">>>>
       /\ \A key \in DOMAIN cache \cap DOMAIN cache' :
             cache'[key] # cache[key]
             => /\ key = <<last'.svc, last'.id>>
                /\ \E i \in DOMAIN last'.calls :
                      last'.calls[i] = <<"SETEX", "ok">>
                /\ cache'[key].expire_at = now' + NominalTTL(key)
       /\ \A key \in DOMAIN cache' :
             cache'[key].expire_at <= now' + NominalTTL(key)
       /\ \A id \in UserIds :
             UserKey(id) \in DOMAIN cache'
             => UserService_get_by_id(users', cache', now', TRUE, id,
                                      AllOk).cache = cache'
       /\ \A id \in ProductIds :
             ProductKey(id) \in DOMAIN cache'
             => ProductService_get_by_id(products', cache', now', TRUE, id,
                                         AllOk).cache = cache']_vars

\* A read of user 1 was answered from an entry that had aged, and the entry
\* has the remaining TTL it had when the read arrived.
C34_Witness ==
    /\ last.svc = "user" /\ last.op = "get_by_id" /\ last.id = 1
    /\ last.exc = "" /\ last.repo = 0 /\ last.ret # None
    /\ last.ttl = USER_TTL - TickSeconds
    /\ redis_ttl(cache, UserKey(1), now) = last.ttl


\* C35: after any interleaving of the steps of UserService.create and
\* UserService.update no two stored users share an email and no two share a
\* username, two requests that both passed the existence check for one value
\* and then commit included.
C35_EmailsAndUsernamesStayUnique ==
    \A a, b \in DOMAIN users :
        a # b => /\ users[a].email # users[b].email
                 /\ users[a].username # users[b].username

\* A create that had passed both existence checks was refused at its commit:
\* another request had stored its email or username in between.
C35_Witness ==
    /\ last.svc = "user" /\ last.op = "create"
    /\ last.exc = "IntegrityError"
    /\ users # <<>>


\* The sum over a set of order items of price_at_order times quantity.
RECURSIVE LinesTotal(_, _)
LinesTotal(itbl, item_ids) ==
    IF item_ids = {} THEN 0
    ELSE LET i == CHOOSE x \in item_ids : TRUE
         IN  itbl[i].price_at_order * itbl[i].quantity
             + LinesTotal(itbl, item_ids \ {i})

\* C36: after every step the total_price of every stored order is the sum
\* over its items of price_at_order times quantity, the order just created
\* included; a step that changes a product's price changes no stored order
\* and no stored order item.
C36_TotalIsSumOfLinesAndPricesAreKept ==
    [][/\ \A k \in DOMAIN orders' :
             orders'[k].total_price
             = LinesTotal(order_items',
                          {i \in DOMAIN order_items' :
                              order_items'[i].order_id = k})
       /\ (last'.svc = "order" /\ last'.op = "create" /\ last'.exc = "")
          => /\ last'.id \in DOMAIN orders'
             /\ \A i \in DOMAIN order_items' :
                   order_items'[i].order_id = last'.id
                   => order_items'[i].price_at_order
                      = products[order_items'[i].product_id].price
             /\ \A k \in DOMAIN orders : orders'[k] = orders[k]
             /\ \A i \in DOMAIN order_items : order_items'[i] = order_items[i]
       /\ last'.svc = "product"
          => orders' = orders /\ order_items' = order_items]_vars

\* A product's price was changed after an order for two units of it had been
\* stored: the item keeps the price it was ordered at.
C36_Witness ==
    /\ last.svc = "product" /\ last.op = "update" /\ last.exc = ""
    /\ \E i \in DOMAIN order_items :
          /\ order_items[i].quantity = 2
          /\ order_items[i].price_at_order
             # products[order_items[i].product_id].price
          /\ orders[order_items[i].order_id].total_price
             = LinesTotal(order_items, ItemsOf(order_items[i].order_id))


\* The number of stored reports of an order.
ReportsOf(rtbl, order_id) ==
    Cardinality({k \in DOMAIN rtbl : rtbl[k].order_id = order_id})

CallAt(calls, name) ==
    IF \E i \in DOMAIN calls : calls[i][1] = name
    THEN CHOOSE i \in DOMAIN calls : calls[i][1] = name
    ELSE 0

Attempts(calls, name) ==
    Cardinality({i \in DOMAIN calls : calls[i][1] = name})

\* The request issued GET, SETEX and DEL at most once each, and when its
\* SETEX failed a key that was absent before the request is absent after it.
OneAttemptPerStep(req, c) ==
    /\ \A name \in {"GET", "SETEX", "DEL"} : Attempts(req.calls, name) <= 1
    /\ (/\ \E i \in DOMAIN req.calls :
              req.calls[i][1] = "SETEX" /\ req.calls[i][2] # "ok"
        /\ req.ttl = -2)
       => <<req.svc, req.id>> \notin DOMAIN c

\* A later read of a stored row with the store reachable misses an absent key
\* and repopulates it.
ReadMissRepopulates ==
    /\ \A id \in DOMAIN users :
          UserKey(id) \notin DOMAIN cache
          => UserKey(id) \in DOMAIN UserService_get_by_id(
                                       users, cache, now, TRUE, id, AllOk).cache
    /\ \A id \in DOMAIN products :
          ProductKey(id) \notin DOMAIN cache
          => ProductKey(id) \in DOMAIN ProductService_get_by_id(
                                          products, cache, now, TRUE, id,
                                          AllOk).cache

\* The request was a get_by_id that missed the absent key, read the row and
\* failed to populate the key.
FailedPopulation(req) ==
    /\ req.op = "get_by_id" /\ req.repo = 1 /\ req.ttl = -2
    /\ \E i \in DOMAIN req.calls :
          req.calls[i][1] = "SETEX" /\ req.calls[i][2] # "ok"

\* C39 as stated: every request makes at most one attempt per cache step, a
\* failed population leaves the absent key absent, and the key it left absent
\* becomes present only in a get_by_id of that key that missed and whose
\* single SETEX succeeded.
C39_AbsentUntilReadMiss ==
    [][/\ OneAttemptPerStep(last', cache')
       /\ ReadMissRepopulates'
       /\ \A key \in DOMAIN cache' \ DOMAIN cache :
             /\ FailedPopulation(last) /\ key = <<last.svc, last.id>>
                => last'.op = "get_by_id"
             /\ key = <<last'.svc, last'.id>>
             /\ \/ last'.op = "get_by_id" /\ last'.repo = 1
                \/ last'.svc = "product" /\ last'.op = "update"
                   /\ ~FailedPopulation(last)
             /\ \E i \in DOMAIN last'.calls :
                   last'.calls[i] = <<"SETEX", "ok">>]_vars

\* C39, amended: every request makes at most one attempt per cache step and
\* a failed population leaves the absent key absent; a key that is absent
\* becomes present only in a request for that key whose single SETEX
\* succeeded, which is a get_by_id that missed or, for a product, an update,
\* which refreshes the entry; a later read miss repopulates the key.
C39_AbsentUntilNextWrite ==
    [][/\ OneAttemptPerStep(last', cache')
       /\ ReadMissRepopulates'
       /\ \A key \in DOMAIN cache' \ DOMAIN cache :
             /\ key = <<last'.svc, last'.id>>
             /\ \/ last'.op = "get_by_id" /\ last'.repo = 1
                \/ last'.svc = "product" /\ last'.op = "update"
             /\ \E i \in DOMAIN last'.calls :
                   last'.calls[i] = <<"SETEX", "ok">>]_vars

\* A read of a stored user missed, read the row and failed to populate the
\* key: one GET and one SETEX were issued and the key is still absent.
C39_Witness ==
    /\ last.svc = "user" /\ last.op = "get_by_id" /\ last.exc = ""
    /\ last.repo = 1 /\ last.ret # None /\ last.ttl = -2
    /\ last.calls = <<<<"GET", "ok">>, <<"SETEX", "ConnectionError">>>>
    /\ UserKey(last.id) \notin DOMAIN cache

====
